---- MODULE Spec2Model ----
(***************************************************************************)
(* Model of the rogue-like simulation kernel of dmckinstry/wxrtest:        *)
(* combat resolution (combat.js), pathfinding (grid-utils.js), the turn    *)
(* manager (turn-manager.js, game-state.js, status-effects.js), the game   *)
(* controller loop (game-controller.js) and the dungeon generator          *)
(* (dungeon-generator.js).                                                 *)
(*                                                                         *)
(* Each component has its own specification over the shared variables;     *)
(* the variables of the other components stay at their idle value.         *)
(***************************************************************************)
EXTENDS Integers, Sequences, FiniteSets, TLC

VARIABLES
    combat,     \* the combat call in progress: its arguments and its result
    path,       \* the findPath call in progress: its arguments and its result
    turn,       \* the turn-manager call in progress: its state argument and result
    gameState,  \* the controller's gameState (with the dungeon it plays in)
    tick,       \* the controller entry point that ran last, and whether it
                \* ran the enemy pass
    gen         \* the generateDungeon call in progress (its locals) and the
                \* calls that have returned

vars == <<combat, path, turn, gameState, tick, gen>>

(***************************************************************************)
(* Generic helpers                                                         *)
(***************************************************************************)

\* A JavaScript value that may be missing (null / undefined) is the empty
\* sequence; a present value v is <<v>>.
Null == <<>>

Some(v) == <<v>>

Max(a, b) == IF a >= b THEN a ELSE b

Min(a, b) == IF a <= b THEN a ELSE b

Abs(a) == IF a < 0 THEN -a ELSE a

RECURSIVE SumSeq(_)
SumSeq(s) == IF s = <<>> THEN 0 ELSE s[1] + SumSeq(Tail(s))

\* JavaScript `x || d` for a numeric x: a missing value and 0 are falsy.
OrDefault(opt, d) == IF opt = Null THEN d ELSE IF opt[1] = 0 THEN d ELSE opt[1]

(***************************************************************************)
(* Combat (src/src/rogue/combat.js)                                        *)
(***************************************************************************)

\* Bounds of the combat inputs.
MaxDice == 2

MaxSides == 3

MaxBonus == 2

\* rollD20: Math.floor(Math.random() * 20) + 1.
D20 == 20

rollD20 == 1..D20

\* The outcomes of `count` dice of `sides` faces, one per loop iteration of
\* rollDamage: each is Math.floor(Math.random() * sides) + 1.
DiceOutcomes(count, sides) == [1..count -> 1..sides]

rollDamageNoFloor(rolls, bonus) == bonus + SumSeq(rolls)

\* rollDamage(count, sides, bonus) for the dice outcomes `rolls`.
rollDamage(rolls, bonus) == Max(1, bonus + SumSeq(rolls))

\* calculateHit(attacker, defender, roll)
calculateHit(attacker, defender, roll) ==
    LET attackBonus == OrDefault(attacker.attackBonus, 0)
        totalRoll   == roll + attackBonus
        defenderAC  == OrDefault(defender.ac, 10)
    IN  [hit       |-> totalRoll >= defenderAC \/ roll = 20,
         roll      |-> roll,
         natural20 |-> roll = 20,
         natural1  |-> roll = 1,
         totalRoll |-> totalRoll]

\* The dice executeAttack rolls for an attacker: the weapon's, else the
\* attacker's own, else 1d4.
attackDice(attacker) ==
    IF attacker.weapon # Null
    THEN [count |-> attacker.weapon[1].damage[1],
          sides |-> attacker.weapon[1].damage[2],
          bonus |-> OrDefault(attacker.weapon[1].bonus, 0)]
    ELSE IF attacker.damage # Null
    THEN [count |-> attacker.damage[1][1],
          sides |-> attacker.damage[1][2],
          bonus |-> OrDefault(attacker.damageBonus, 0)]
    ELSE [count |-> 1, sides |-> 4, bonus |-> 0]

executeAttackNoCrit(attacker, defender, roll, rolls) ==
    LET attackResult == calculateHit(attacker, defender, roll)
        damage == rollDamage(rolls, attackDice(attacker).bonus)
    IN  IF ~attackResult.hit
        THEN [hit |-> FALSE, damage |-> 0, killed |-> FALSE,
              attackRoll |-> attackResult, critical |-> Null]
        ELSE [hit |-> TRUE, damage |-> damage,
              killed |-> Max(0, defender.hp - damage) = 0,
              attackRoll |-> attackResult,
              critical |-> Some(attackResult.natural20)]

\* executeAttack(attacker, defender) with d20 outcome `roll` and damage dice
\* outcomes `rolls`.
executeAttack(attacker, defender, roll, rolls) ==
    LET attackResult == calculateHit(attacker, defender, roll)
        base   == rollDamage(rolls, attackDice(attacker).bonus)
        damage == IF attackResult.natural20 THEN base * 2 ELSE base
    IN  IF ~attackResult.hit
        THEN [hit |-> FALSE, damage |-> 0, killed |-> FALSE,
              attackRoll |-> attackResult, critical |-> Null]
        ELSE [hit |-> TRUE, damage |-> damage,
              killed |-> Max(0, defender.hp - damage) = 0,
              attackRoll |-> attackResult,
              critical |-> Some(attackResult.natural20)]

\* Inputs of the combat functions.
BonusVals == (-MaxBonus)..MaxBonus

DamageDice == {<<c, s>> : c \in 1..MaxDice, s \in 1..MaxSides}

Weapons == {[damage |-> <<1, MaxSides>>, bonus |-> b] :
                b \in {Null, Some(-MaxBonus), Some(1)}}

Attackers ==
    {[attackBonus |-> ab, weapon |-> w, damage |-> d, damageBonus |-> db] :
        ab \in {Null, Some(MaxBonus)},
        w  \in {Null} \cup {Some(x) : x \in Weapons},
        d  \in {Null, Some(<<1, 1>>), Some(<<MaxDice, MaxSides>>)},
        db \in {Null, Some(-10)}}

ArmorClasses == {Null, Some(0), Some(5), Some(10), Some(15), Some(30)}

Defenders == {[ac |-> a, hp |-> h] : a \in ArmorClasses, h \in {2, 20}}

NoArgs == [attacker |-> Null, defender |-> Null, roll |-> 0,
           rolls |-> <<>>, bonus |-> 0,
           attackerEffects |-> <<>>, defenderEffects |-> <<>>,
           enemy |-> Null, playerPosition |-> Null, grid |-> <<>>,
           playerEffects |-> <<>>]

CombatIdle == [op |-> "none", in |-> NoArgs, out |-> Null]

\* The variables of the other components, and their idle values.
notCombat == <<path, turn, gameState, tick, gen>>

PathIdle == [op |-> "none"]

TurnIdle == [op |-> "none"]

GameIdle == [gameOver |-> FALSE]

TickIdle == [op |-> "none", enemyPass |-> FALSE]

GenIdle == [pc |-> "none"]

CombatInit ==
    /\ combat = CombatIdle
    /\ path = PathIdle
    /\ turn = TurnIdle
    /\ gameState = GameIdle
    /\ tick = TickIdle
    /\ gen = GenIdle

\* A call rollDamage(count, sides, bonus).
CallRollDamage ==
    /\ combat.op = "none"
    /\ \E count \in 0..MaxDice, sides \in 1..MaxSides, bonus \in (-10)..MaxBonus :
        \E rolls \in DiceOutcomes(count, sides) :
          combat' = [op  |-> "rollDamage",
                     in  |-> [NoArgs EXCEPT !.rolls = rolls, !.bonus = bonus],
                     out |-> Some(rollDamage(rolls, bonus))]
    /\ UNCHANGED notCombat

\* A call calculateHit(attacker, defender, roll).
CallCalculateHit ==
    /\ combat.op = "none"
    /\ \E ab \in {Null} \cup {Some(b) : b \in BonusVals \cup {5, 10}},
          ac \in ArmorClasses, roll \in rollD20 :
          LET attacker == [attackBonus |-> ab]
              defender == [ac |-> ac]
          IN  combat' = [op  |-> "calculateHit",
                         in  |-> [NoArgs EXCEPT !.attacker = Some(attacker),
                                                !.defender = Some(defender),
                                                !.roll = roll],
                         out |-> Some(calculateHit(attacker, defender, roll))]
    /\ UNCHANGED notCombat

\* A call executeAttack(attacker, defender).
CallExecuteAttack ==
    /\ combat.op = "none"
    /\ \E attacker \in Attackers, defender \in Defenders, roll \in rollD20 :
        \E rolls \in DiceOutcomes(attackDice(attacker).count,
                                  attackDice(attacker).sides) :
          combat' = [op  |-> "executeAttack",
                     in  |-> [NoArgs EXCEPT !.attacker = Some(attacker),
                                            !.defender = Some(defender),
                                            !.roll = roll,
                                            !.rolls = rolls],
                     out |-> Some(executeAttack(attacker, defender, roll, rolls))]
    /\ UNCHANGED notCombat

\* A call executeAttack(attacker, defender, attackerEffects,
\* defenderEffects) as the unit tests of the status effects make it: the
\* function declares two parameters, so the two effect lists are passed and
\* never read.
CallExecuteAttackWithEffects ==
    /\ combat.op = "none"
    /\ \E ab \in {Some(0), Some(10)},
          d  \in {<<1, 1>>, <<MaxDice, MaxSides>>},
          defender \in {[ac |-> Some(5), hp |-> 20]},
          roll \in rollD20,
          effects \in {<<"strength", "none">>, <<"skill", "none">>,
                       <<"none", "stone">>, <<"none", "none">>} :
        LET attacker == [attackBonus |-> ab, weapon |-> Null,
                         damage |-> Some(d), damageBonus |-> Null]
            Effect(type) ==
                IF type = "none" THEN <<>>
                ELSE <<[type |-> type, magnitude |-> MaxBonus + 3,
                        turnsRemaining |-> 10]>>
        IN  \E rolls \in DiceOutcomes(d[1], d[2]) :
              combat' = [op  |-> "executeAttack",
                         in  |-> [NoArgs EXCEPT
                                    !.attacker = Some(attacker),
                                    !.defender = Some(defender),
                                    !.roll = roll,
                                    !.rolls = rolls,
                                    !.attackerEffects = Effect(effects[1]),
                                    !.defenderEffects = Effect(effects[2])],
                         out |-> Some(executeAttack(attacker, defender,
                                                    roll, rolls))]
    /\ UNCHANGED notCombat

\* The caller takes the result; the next call starts from fresh arguments.
CombatReturn ==
    /\ combat.op # "none"
    /\ combat' = CombatIdle
    /\ UNCHANGED notCombat

(***************************************************************************)
(* Combat properties                                                       *)
(***************************************************************************)

CombatIn == combat.in

CombatOut == combat.out[1]

\* C8: calculateHit reports hit = true exactly when roll + attackBonus >=
\* defender.ac or roll = 20, for every roll, attack bonus and armor class
\* (a natural 1 is flagged but does not by itself force a miss).
C8_HitIffTotalBeatsAcOrNat20 ==
    (/\ combat.op = "calculateHit"
     /\ CombatIn.attacker[1].attackBonus # Null
     /\ CombatIn.defender[1].ac # Null)
    => /\ CombatOut.hit <=>
            \/ CombatIn.roll + CombatIn.attacker[1].attackBonus[1]
                    >= CombatIn.defender[1].ac[1]
            \/ CombatIn.roll = 20
       /\ CombatOut.natural1 <=> (CombatIn.roll = 1)

\* C9: rollDamage returns max(1, sum of the dice + bonus) for every dice
\* outcome, so the result is at least 1 also when the bonus is negative.
C9_DamageFloorIsOne ==
    combat.op = "rollDamage" =>
        LET raw == SumSeq(CombatIn.rolls) + CombatIn.bonus
        IN  /\ CombatOut >= 1
            /\ raw >= 1 => CombatOut = raw
            /\ raw < 1  => CombatOut = 1

\* rollDamage(1, 1, -10) returned 1.
C9_Witness ==
    /\ combat.op = "rollDamage"
    /\ CombatIn.rolls = <<1>>
    /\ CombatIn.bonus = -10
    /\ CombatOut = 1

\* C10: when the attack roll of executeAttack is a natural 20 the result
\* has hit = true and critical = true whatever the defender's armor class,
\* and its damage is twice the damage the same dice and bonus give without
\* the critical.
C10_Natural20DoublesDamage ==
    (combat.op = "executeAttack" /\ CombatIn.roll = 20) =>
        LET plain == Max(1, SumSeq(CombatIn.rolls)
                              + attackDice(CombatIn.attacker[1]).bonus)
        IN  /\ CombatOut.hit
            /\ CombatOut.critical = Some(TRUE)
            /\ CombatOut.damage = 2 * plain

\* A natural 20 by an attacker without attack bonus against armor class 30.
C10_Witness ==
    /\ combat.op = "executeAttack"
    /\ CombatIn.roll = 20
    /\ CombatIn.attacker[1].attackBonus = Null
    /\ CombatIn.defender[1].ac = Some(30)
    /\ CombatOut.hit
    /\ CombatOut.damage >= 2

\* C11: when the defender has an active stone effect and the attack roll
\* succeeds, executeAttack returns hit = true, blocked = true and damage = 0.
C11_StoneBlocksDamage ==
    (/\ combat.op = "executeAttack"
     /\ \E i \in 1..Len(CombatIn.defenderEffects) :
            /\ CombatIn.defenderEffects[i].type = "stone"
            /\ CombatIn.defenderEffects[i].turnsRemaining > 0
     /\ calculateHit(CombatIn.attacker[1], CombatIn.defender[1],
                     CombatIn.roll).hit)
    => /\ CombatOut.hit
       /\ "blocked" \in DOMAIN CombatOut
       /\ CombatOut.damage = 0

\* C12: when the attacker has an active strength effect of magnitude m, the
\* damage of a successful non-critical attack is the dice sum plus the fixed
\* bonus plus m, floored at 1.
C12_StrengthAddsMagnitude ==
    (/\ combat.op = "executeAttack"
     /\ calculateHit(CombatIn.attacker[1], CombatIn.defender[1],
                     CombatIn.roll).hit
     /\ CombatIn.roll # 20)
    => \A i \in 1..Len(CombatIn.attackerEffects) :
          (/\ CombatIn.attackerEffects[i].type = "strength"
           /\ CombatIn.attackerEffects[i].turnsRemaining > 0)
          => CombatOut.damage =
                Max(1, SumSeq(CombatIn.rolls)
                         + attackDice(CombatIn.attacker[1]).bonus
                         + CombatIn.attackerEffects[i].magnitude)

(***************************************************************************)
(* Grid and pathfinding (src/src/rogue/grid-utils.js)                      *)
(***************************************************************************)

\* Bounds of the grids findPath is applied to.
PathWidth == 3

PathHeight == 3

MaxWalls == 2

Pos(x, y) == [x |-> x, y |-> y]

\* A grid is a sequence of rows, grid[y + 1][x + 1] being the source's
\* grid[y][x].
GridHeight(grid) == Len(grid)

GridWidth(grid) == Len(grid[1])

TileAt(grid, x, y) == grid[y + 1][x + 1]

manhattanDistance(x1, y1, x2, y2) == Abs(x2 - x1) + Abs(y2 - y1)

getAdjacentPositions(x, y) ==
    <<Pos(x + 1, y), Pos(x - 1, y), Pos(x, y + 1), Pos(x, y - 1)>>

\* isWalkable(grid, x, y) with the default walkableTile 'floor'.
isWalkable(grid, x, y) ==
    IF grid = <<>> \/ y < 0 \/ y >= GridHeight(grid)
                  \/ x < 0 \/ x >= GridWidth(grid)
    THEN FALSE
    ELSE TileAt(grid, x, y) \in {"floor", "door", "stairs_down", "stairs_up"}

\* pos1 and pos2 are 4-directionally adjacent.
isAdjacent(pos1, pos2) ==
    LET dx == Abs(pos1.x - pos2.x)
        dy == Abs(pos1.y - pos2.y)
    IN  (dx = 1 /\ dy = 0) \/ (dx = 0 /\ dy = 1)

Key(p) == <<p.x, p.y>>

\* The index of the first node with the lowest f score, scanning from i
\* with the best index so far being cur.
RECURSIVE LowestF(_, _, _)
LowestF(openSet, i, cur) ==
    IF i > Len(openSet) THEN cur
    ELSE IF openSet[i].f < openSet[cur].f
         THEN LowestF(openSet, i + 1, i)
         ELSE LowestF(openSet, i + 1, cur)

RemoveAt(s, i) == SubSeq(s, 1, i - 1) \o SubSeq(s, i + 1, Len(s))

\* The loop over the neighbors of `current`, from the i-th on.  A node is
\* its position, scores and the path from the start to it (the chain of
\* parent references, start excluded); `st` holds openSet and, for every
\* key of the visited map, the g of the node stored there.
RECURSIVE CheckNeighbors(_, _, _, _, _, _)
CheckNeighbors(grid, goal, closedSet, current, i, st) ==
    IF i > 4 THEN st
    ELSE
      LET neighbor == getAdjacentPositions(current.x, current.y)[i]
          k == Key(neighbor)
      IN  IF k \in closedSet \/ ~isWalkable(grid, neighbor.x, neighbor.y)
          THEN CheckNeighbors(grid, goal, closedSet, current, i + 1, st)
          ELSE
            LET g == current.g + 1
                h == manhattanDistance(neighbor.x, neighbor.y, goal.x, goal.y)
                neighborNode == [x |-> neighbor.x, y |-> neighbor.y,
                                 g |-> g, h |-> h, f |-> g + h,
                                 path |-> Append(current.path, neighbor)]
            IN  IF k \notin DOMAIN st.visited
                THEN CheckNeighbors(grid, goal, closedSet, current, i + 1,
                        [openSet |-> Append(st.openSet, neighborNode),
                         visited |-> st.visited @@ (k :> g)])
                ELSE IF g < st.visited[k]
                THEN CheckNeighbors(grid, goal, closedSet, current, i + 1,
                        [st EXCEPT !.visited[k] = g])
                ELSE CheckNeighbors(grid, goal, closedSet, current, i + 1, st)

\* The while loop of findPath.
RECURSIVE SearchLoop(_, _, _, _)
SearchLoop(grid, goal, closedSet, st) ==
    IF Len(st.openSet) = 0 THEN <<>>
    ELSE
      LET currentIndex == LowestF(st.openSet, 2, 1)
          current == st.openSet[currentIndex]
      IN  IF current.x = goal.x /\ current.y = goal.y
          THEN current.path
          ELSE SearchLoop(grid, goal, closedSet \cup {Key(current)},
                  CheckNeighbors(grid, goal, closedSet \cup {Key(current)},
                      current, 1,
                      [st EXCEPT !.openSet = RemoveAt(@, currentIndex)]))

\* findPath building the path up to and including the start node.
findPathWithStart(grid, start, goal) ==
    IF ~isWalkable(grid, goal.x, goal.y) THEN <<>>
    ELSE
      LET h0 == manhattanDistance(start.x, start.y, goal.x, goal.y)
          startNode == [x |-> start.x, y |-> start.y, g |-> 0, h |-> h0,
                        f |-> h0, path |-> <<start>>]
      IN  SearchLoop(grid, goal, {},
              [openSet |-> <<startNode>>,
               visited |-> (Key(start) :> 0)])

\* findPath(grid, start, goal)
findPath(grid, start, goal) ==
    IF ~isWalkable(grid, goal.x, goal.y) THEN <<>>
    ELSE
      LET h0 == manhattanDistance(start.x, start.y, goal.x, goal.y)
          startNode == [x |-> start.x, y |-> start.y, g |-> 0, h |-> h0,
                        f |-> h0, path |-> <<>>]
      IN  SearchLoop(grid, goal, {},
              [openSet |-> <<startNode>>,
               visited |-> (Key(start) :> 0)])

\* Inputs of findPath.
TILE_SIZE == 2

VISIBILITY_RADIUS == 5

worldToGridTruncating(x, z) ==
    Pos(IF x >= 0 THEN x \div TILE_SIZE ELSE -((-x) \div TILE_SIZE),
        IF z >= 0 THEN z \div TILE_SIZE ELSE -((-z) \div TILE_SIZE))

\* worldToGrid(x, z): Math.floor of the quotient, also below zero.
worldToGrid(x, z) == Pos(x \div TILE_SIZE, z \div TILE_SIZE)

\* gridToWorld(gridX, gridY); TILE_SIZE is even, so the tile centre is a
\* whole number of metres.
gridToWorld(gridX, gridY) ==
    [x |-> gridX * TILE_SIZE + TILE_SIZE \div 2,
     z |-> gridY * TILE_SIZE + TILE_SIZE \div 2]

computeVisibleTilesUnbounded(grid, position, radius) ==
    LET radiusInTiles == (radius + TILE_SIZE - 1) \div TILE_SIZE
    IN  {Pos(position.x + dx, position.y + dy) :
            <<dx, dy>> \in
              {d \in ((-radiusInTiles)..radiusInTiles)
                        \X ((-radiusInTiles)..radiusInTiles) :
                  (d[1] * d[1] + d[2] * d[2]) * TILE_SIZE * TILE_SIZE
                      <= radius * radius}}

\* computeVisibleTiles(grid, position, radius): the two loops over the
\* offsets up to ceil(radius / TILE_SIZE), skipping the tiles out of the
\* grid, keeping those with distance * TILE_SIZE <= radius.  The distance is
\* a square root; the comparison is made on the squares.
computeVisibleTiles(grid, position, radius) ==
    LET radiusInTiles == (radius + TILE_SIZE - 1) \div TILE_SIZE
    IN  {Pos(position.x + dx, position.y + dy) :
            <<dx, dy>> \in
              {d \in ((-radiusInTiles)..radiusInTiles)
                        \X ((-radiusInTiles)..radiusInTiles) :
                  /\ ~(\/ position.y + d[2] < 0
                        \/ position.y + d[2] >= Len(grid)
                        \/ position.x + d[1] < 0
                        \/ position.x + d[1] >= Len(grid[1]))
                  /\ (d[1] * d[1] + d[2] * d[2]) * TILE_SIZE * TILE_SIZE
                        <= radius * radius}}

updateExploredTilesOverwrite(exploredTiles, visibleTiles) == visibleTiles

updateExploredTilesKeepOld(exploredTiles, visibleTiles) == exploredTiles

\* updateExploredTiles(exploredTiles, visibleTiles)
updateExploredTiles(exploredTiles, visibleTiles) ==
    exploredTiles \cup visibleTiles

PathTiles == {"wall", "floor"}

PathPositions == {Pos(x, y) : x \in 0..(PathWidth - 1), y \in 0..(PathHeight - 1)}

\* The grid whose tiles at `walls` are wall and all others floor.
GridWithWalls(walls) ==
    [y \in 1..PathHeight |->
        [x \in 1..PathWidth |->
            IF Pos(x - 1, y - 1) \in walls THEN "wall" ELSE "floor"]]

PathGrids ==
    {GridWithWalls(walls) :
        walls \in {w \in SUBSET PathPositions : Cardinality(w) <= MaxWalls}}

\* A grid of five columns and four rows on which a tile is reached first
\* by a detour and then by a shorter way.
DetourGrid ==
    << <<"floor", "wall", "floor", "floor", "floor">>,
       <<"floor", "wall", "floor", "wall",  "floor">>,
       <<"floor", "floor", "floor", "floor", "floor">>,
       <<"floor", "floor", "floor", "floor", "floor">> >>

notPath == <<combat, turn, gameState, tick, gen>>

\* The arguments of a findPath call.
PathInit ==
    /\ \/ \E grid \in PathGrids, start \in PathPositions, goal \in PathPositions :
            path = [op |-> "args", grid |-> grid, start |-> start,
                    goal |-> goal, out |-> <<>>]
       \/ \E start, goal \in {Pos(x, y) : x \in 0..4, y \in 0..3} :
            path = [op |-> "args", grid |-> DetourGrid, start |-> start,
                    goal |-> goal, out |-> <<>>]
       \/ path = [op |-> "none"]
    /\ combat = CombatIdle
    /\ turn = TurnIdle
    /\ gameState = GameIdle
    /\ tick = TickIdle
    /\ gen = GenIdle

\* The call findPath(grid, start, goal).
CallFindPath ==
    /\ path.op = "args"
    /\ path' = [path EXCEPT !.op = "findPath",
                            !.out = findPath(path.grid, path.start, path.goal)]
    /\ UNCHANGED notPath

\* A call computeVisibleTiles(grid, position, radius).
CallComputeVisibleTiles ==
    /\ path.op = "none"
    /\ \E grid \in {GridWithWalls({}), GridWithWalls({Pos(1, 1)})},
          position \in PathPositions,
          radius \in 0..(VISIBILITY_RADIUS + 1) :
         path' = [op |-> "computeVisibleTiles", grid |-> grid,
                  position |-> position, radius |-> radius,
                  out |-> computeVisibleTiles(grid, position, radius)]
    /\ UNCHANGED notPath

\* A call worldToGrid(x, z), and gridToWorld on its result.
CallWorldToGrid ==
    /\ path.op = "none"
    /\ \E x, z \in (-(PathWidth * TILE_SIZE))..(PathWidth * TILE_SIZE) :
        \E out \in {worldToGrid(x, z)} :
         path' = [op |-> "worldToGrid", x |-> x, z |-> z, out |-> out,
                  back |-> gridToWorld(out.x, out.y)]
    /\ UNCHANGED notPath

\* A call gridToWorld(gridX, gridY), and worldToGrid on its result.
CallGridToWorld ==
    /\ path.op = "none"
    /\ \E gridX, gridY \in (-PathWidth)..PathWidth :
        \E out \in {gridToWorld(gridX, gridY)} :
         path' = [op |-> "gridToWorld", gridX |-> gridX, gridY |-> gridY,
                  out |-> out, back |-> worldToGrid(out.x, out.z)]
    /\ UNCHANGED notPath

PathNext ==
    \/ CallFindPath
    \/ CallComputeVisibleTiles
    \/ CallWorldToGrid
    \/ CallGridToWorld

SpecPath == PathInit /\ [][PathNext]_vars

(***************************************************************************)
(* Pathfinding properties                                                  *)
(***************************************************************************)

GridPositions(grid) ==
    {Pos(x, y) : x \in 0..(GridWidth(grid) - 1), y \in 0..(GridHeight(grid) - 1)}

\* The tiles reachable from the tiles of `set` by 4-directional moves over
\* walkable tiles.
RECURSIVE ReachableFrom(_, _)
ReachableFrom(grid, set) ==
    LET step == {q \in GridPositions(grid) :
                    /\ isWalkable(grid, q.x, q.y)
                    /\ \E p \in set : isAdjacent(p, q)}
    IN  IF step \subseteq set THEN set ELSE ReachableFrom(grid, set \cup step)

IsWalk(grid, start, p) ==
    /\ Len(p) > 0
    /\ \A i \in 1..Len(p) :
          /\ p[i] # start
          /\ isWalkable(grid, p[i].x, p[i].y)
          /\ isAdjacent(IF i = 1 THEN start ELSE p[i - 1], p[i])

\* C7: when the goal is walkable, differs from the start and is reachable
\* from it, findPath returns a non-empty walk that excludes the start,
\* begins next to it, ends at the goal and moves between 4-adjacent walkable
\* tiles; when the goal is unwalkable or unreachable it returns the empty
\* sequence.
C7_FindPathIsWalkToGoal ==
    path.op = "findPath" =>
        LET reachable == path.goal \in ReachableFrom(path.grid, {path.start})
            walkable  == isWalkable(path.grid, path.goal.x, path.goal.y)
        IN  /\ (walkable /\ reachable /\ path.goal # path.start)
                  => /\ IsWalk(path.grid, path.start, path.out)
                     /\ path.out[Len(path.out)] = path.goal
            /\ (~walkable \/ ~reachable) => path.out = <<>>

\* A path that has to go around a wall.
C7_Witness ==
    /\ path.op = "findPath"
    /\ Len(path.out) >
          manhattanDistance(path.start.x, path.start.y, path.goal.x, path.goal.y)
    /\ path.out[Len(path.out)] = path.goal

\* The least number of 4-directional steps over walkable tiles from a tile
\* of `set` to `goal`, which is reachable, counted from n.
RECURSIVE StepsTo(_, _, _, _)
StepsTo(grid, set, goal, n) ==
    CHOOSE d \in
        {IF goal \in s THEN n
         ELSE StepsTo(grid,
                      s \cup {q \in GridPositions(grid) :
                                /\ isWalkable(grid, q.x, q.y)
                                /\ \E p \in s : isAdjacent(p, q)},
                      goal, n + 1) : s \in {set}} : TRUE

\* C33: every non-empty path returned by findPath is a shortest one: its
\* length is the least number of 4-directional steps over walkable tiles
\* from start to goal.
C33_FindPathIsShortest ==
    (path.op = "findPath" /\ path.out # <<>>) =>
        Len(path.out) = StepsTo(path.grid, {path.start}, path.goal, 0)

\* C26: computeVisibleTiles(grid, position, radius) returns exactly the
\* tiles inside the grid bounds whose Euclidean distance in tiles from
\* position is at most radius / TILE_SIZE (compared on the squares); walls
\* do not occlude, and no out-of-bounds tile is returned.
C26_VisibleIsDiscInsideGrid ==
    path.op = "computeVisibleTiles" =>
        /\ path.out =
              {p \in GridPositions(path.grid) :
                  ((p.x - path.position.x) * (p.x - path.position.x)
                     + (p.y - path.position.y) * (p.y - path.position.y))
                    * TILE_SIZE * TILE_SIZE
                  <= path.radius * path.radius}
        /\ \A p \in path.out :
              /\ 0 <= p.x /\ p.x < GridWidth(path.grid)
              /\ 0 <= p.y /\ p.y < GridHeight(path.grid)

\* From a corner, with a radius that reaches beyond the grid on two sides
\* and not to the far corner, a wall tile is visible.
C26_Witness ==
    /\ path.op = "computeVisibleTiles"
    /\ path.position = Pos(0, 0)
    /\ path.radius = VISIBILITY_RADIUS
    /\ Pos(1, 1) \in path.out
    /\ TileAt(path.grid, 1, 1) = "wall"
    /\ Pos(2, 2) \notin path.out

\* C30 as stated: worldToGrid and gridToWorld are exact inverses of each
\* other: grid to world and back returns the same grid coordinate, and
\* world to grid and back returns the same world coordinate.
C30_ExactInverses ==
    /\ path.op = "gridToWorld" =>
          path.back = Pos(path.gridX, path.gridY)
    /\ path.op = "worldToGrid" =>
          path.back = [x |-> path.x, z |-> path.z]

\* C30 amended: grid to world and back returns the same grid coordinate;
\* world to grid and back returns the centre of the tile that contains the
\* world coordinate, which is the same coordinate only for a tile centre.
C30_GridRoundTripAndTileCentre ==
    /\ path.op = "gridToWorld" =>
          path.back = Pos(path.gridX, path.gridY)
    /\ path.op = "worldToGrid" =>
          /\ path.out.x * TILE_SIZE <= path.x
          /\ path.x < path.out.x * TILE_SIZE + TILE_SIZE
          /\ path.out.y * TILE_SIZE <= path.z
          /\ path.z < path.out.y * TILE_SIZE + TILE_SIZE
          /\ path.back.x = path.out.x * TILE_SIZE + TILE_SIZE \div 2
          /\ path.back.z = path.out.y * TILE_SIZE + TILE_SIZE \div 2

\* A world coordinate below zero that is not a tile centre came back as
\* the centre of its tile.
C30_Witness ==
    /\ path.op = "worldToGrid"
    /\ path.x < 0
    /\ path.back.x # path.x
    /\ path.out.x = -1

\* The direct path of the all-floor 3 x 3 grid from (0,0) to (2,0).
PathExampleDirect ==
    (/\ path.op = "findPath"
     /\ \A p \in GridPositions(path.grid) : TileAt(path.grid, p.x, p.y) = "floor"
     /\ path.start = Pos(0, 0) /\ path.goal = Pos(2, 0))
    => path.out = <<Pos(1, 0), Pos(2, 0)>>

(***************************************************************************)
(* Enemy turns (processEnemyTurn of combat.js, called with findPath)       *)
(***************************************************************************)

processEnemyTurnNoAliveCheck(enemy, playerPosition, grid) ==
    IF isAdjacent(enemy.position, playerPosition)
    THEN [action |-> "attack"]
    ELSE LET p == findPath(grid, enemy.position, playerPosition)
         IN  IF Len(p) > 0
             THEN [action |-> "move", newPosition |-> p[1]]
             ELSE [action |-> "wait"]

\* processEnemyTurn moving to the end of the path.
processEnemyTurnToPathEnd(enemy, playerPosition, grid) ==
    IF ~enemy.isAlive THEN [action |-> "wait"]
    ELSE IF isAdjacent(enemy.position, playerPosition)
    THEN [action |-> "attack"]
    ELSE LET p == findPath(grid, enemy.position, playerPosition)
         IN  IF Len(p) > 0
             THEN [action |-> "move", newPosition |-> p[Len(p)]]
             ELSE [action |-> "wait"]

\* processEnemyTurn(enemy, playerPosition, grid, findPath)
processEnemyTurn(enemy, playerPosition, grid) ==
    IF ~enemy.isAlive THEN [action |-> "wait"]
    ELSE IF isAdjacent(enemy.position, playerPosition)
    THEN [action |-> "attack"]
    ELSE LET p == findPath(grid, enemy.position, playerPosition)
         IN  IF Len(p) > 0
             THEN [action |-> "move", newPosition |-> p[1]]
             ELSE [action |-> "wait"]

\* The grids of the enemy turns: all floor, a wall in the middle, and a wall
\* column that separates the tiles left of it from the tiles right of it.
EnemyGrids ==
    {GridWithWalls(walls) :
        walls \in {{}, {Pos(1, 1)}, {Pos(1, y) : y \in 0..(PathHeight - 1)}}}

\* A call processEnemyTurn(enemy, playerPosition, grid, findPath,
\* playerEffects): the enemy and the player stand on walkable tiles, the
\* enemy's isAlive flag is false exactly when its hp is 0 or less
\* (damageEntity), and the fifth argument, which the unit tests of the status
\* effects pass, has no parameter to receive it.
CallProcessEnemyTurn ==
    /\ combat.op = "none"
    /\ \E grid \in EnemyGrids, hp \in {0, 10},
          invisible \in BOOLEAN :
        \E position \in {q \in PathPositions : isWalkable(grid, q.x, q.y)},
           playerPosition \in {q \in PathPositions : isWalkable(grid, q.x, q.y)} :
          LET enemy == [position |-> position, hp |-> hp, isAlive |-> hp > 0]
          IN  combat' =
                [op  |-> "processEnemyTurn",
                 in  |-> [NoArgs EXCEPT
                            !.enemy = Some(enemy),
                            !.playerPosition = Some(playerPosition),
                            !.grid = grid,
                            !.playerEffects =
                                IF invisible
                                THEN <<[type |-> "invisibility",
                                        turnsRemaining |-> 5]>>
                                ELSE <<>>],
                 out |-> Some(processEnemyTurn(enemy, playerPosition, grid))]
    /\ UNCHANGED notCombat

CombatNext ==
    \/ CallRollDamage
    \/ CallCalculateHit
    \/ CallExecuteAttack
    \/ CallExecuteAttackWithEffects
    \/ CallProcessEnemyTurn
    \/ CombatReturn

SpecCombat == CombatInit /\ [][CombatNext]_vars

(***************************************************************************)
(* Enemy-turn properties                                                   *)
(***************************************************************************)

\* C13: while the player has an active invisibility effect, every enemy's
\* turn decision is wait, also for an enemy 4-directionally adjacent to the
\* player.
C13_InvisiblePlayerEnemiesWait ==
    (/\ combat.op = "processEnemyTurn"
     /\ \E i \in 1..Len(CombatIn.playerEffects) :
            /\ CombatIn.playerEffects[i].type = "invisibility"
            /\ CombatIn.playerEffects[i].turnsRemaining > 0)
    => CombatOut.action = "wait"

\* C14: for a visible player, processEnemyTurn returns attack exactly when
\* the enemy is alive and 4-directionally adjacent to the player; otherwise
\* a live enemy moves to the first tile of the path to the player, a
\* walkable tile next to the enemy, or waits when there is no path; an enemy
\* with hp <= 0 waits.
C14_EnemyTurnDecision ==
    (combat.op = "processEnemyTurn" /\ CombatIn.playerEffects = <<>>) =>
        LET enemy  == CombatIn.enemy[1]
            player == CombatIn.playerPosition[1]
            grid   == CombatIn.grid
            near   == Abs(enemy.position.x - player.x)
                        + Abs(enemy.position.y - player.y) = 1
            p      == findPath(grid, enemy.position, player)
        IN  /\ CombatOut.action = "attack" <=> (enemy.hp > 0 /\ near)
            /\ enemy.hp <= 0 => CombatOut.action = "wait"
            /\ (enemy.hp > 0 /\ ~near) =>
                  IF player \in ReachableFrom(grid, {enemy.position})
                        /\ player # enemy.position
                  THEN /\ CombatOut.action = "move"
                       /\ CombatOut.newPosition = p[1]
                       /\ isWalkable(grid, CombatOut.newPosition.x,
                                           CombatOut.newPosition.y)
                       /\ Abs(CombatOut.newPosition.x - enemy.position.x)
                            + Abs(CombatOut.newPosition.y - enemy.position.y) = 1
                  ELSE p = <<>> /\ CombatOut.action = "wait"

\* A live enemy diagonal to a visible player moves, and a dead enemy next to
\* the player has waited.
C14_Witness ==
    /\ combat.op = "processEnemyTurn"
    /\ CombatIn.playerEffects = <<>>
    /\ CombatIn.enemy[1].position = Pos(0, 0)
    /\ \/ /\ CombatIn.enemy[1].hp > 0
          /\ CombatIn.playerPosition[1] = Pos(1, 1)
          /\ CombatOut.action = "move"
       \/ /\ CombatIn.enemy[1].hp = 0
          /\ CombatIn.playerPosition[1] = Pos(1, 0)
          /\ CombatOut.action = "wait"

(***************************************************************************)
(* Game state (game-state.js), status effects (status-effects.js) and the  *)
(* turn manager (turn-manager.js)                                          *)
(***************************************************************************)

MOVEMENT_THRESHOLD == 2

HUNGER_RATE == 1

STARTING_HUNGER == 1000

STARTING_HP == 20

\* STATUS_TYPES
STATUS_TYPES ==
    [INVISIBILITY |-> "invisibility", POISON |-> "poison", SPEED |-> "speed",
     STRENGTH |-> "strength", SKILL |-> "skill", SIGHT |-> "sight",
     ATTRACTION |-> "attraction", STONE |-> "stone"]

\* createStatusEffect(type, duration, magnitude)
createStatusEffect(type, duration, magnitude) ==
    [type |-> type, duration |-> duration, magnitude |-> magnitude,
     turnsRemaining |-> duration]

\* hasStatusEffect(activeEffects, type)
hasStatusEffect(activeEffects, type) ==
    \E i \in 1..Len(activeEffects) : activeEffects[i].type = type

\* The findIndex of addStatusEffect: the first index holding the type, 0
\* when there is none.
FindIndex(activeEffects, type) ==
    IF hasStatusEffect(activeEffects, type)
    THEN CHOOSE i \in 1..Len(activeEffects) :
            /\ activeEffects[i].type = type
            /\ \A j \in 1..(i - 1) : activeEffects[j].type # type
    ELSE 0

addStatusEffectReplaceOnEqual(activeEffects, effect) ==
    LET existing == FindIndex(activeEffects, effect.type)
    IN  IF existing > 0
        THEN IF effect.duration >= activeEffects[existing].turnsRemaining
             THEN [activeEffects EXCEPT ![existing] = effect]
             ELSE activeEffects
        ELSE Append(activeEffects, effect)

\* addStatusEffect(activeEffects, effect)
addStatusEffect(activeEffects, effect) ==
    LET existing == FindIndex(activeEffects, effect.type)
    IN  IF existing > 0
        THEN IF effect.duration > activeEffects[existing].turnsRemaining
             THEN [activeEffects EXCEPT ![existing] = effect]
             ELSE activeEffects
        ELSE Append(activeEffects, effect)

updateStatusEffectsKeepZero(activeEffects) ==
    LET decremented == [i \in 1..Len(activeEffects) |->
                          [activeEffects[i] EXCEPT !.turnsRemaining = @ - 1]]
        Remaining(effect) == effect.turnsRemaining >= 0
    IN  SelectSeq(decremented, Remaining)

\* updateStatusEffects(activeEffects)
updateStatusEffects(activeEffects) ==
    LET decremented == [i \in 1..Len(activeEffects) |->
                          [activeEffects[i] EXCEPT !.turnsRemaining = @ - 1]]
        Remaining(effect) == effect.turnsRemaining > 0
    IN  SelectSeq(decremented, Remaining)

\* createInitialState(seed): the fields the kernel reads and writes.  The
\* player has no statusEffects field until a potion creates it.
createInitialState ==
    [turnCount |-> 0,
     player |-> [position |-> Pos(0, 0),
                 worldPosition |-> [x |-> 0, z |-> 0],
                 hp |-> STARTING_HP,
                 maxHp |-> STARTING_HP,
                 hunger |-> STARTING_HUNGER,
                 level |-> 1,
                 xp |-> 0,
                 xpToNext |-> 100,
                 ac |-> Some(10),
                 attackBonus |-> Some(0),
                 damageBonus |-> Some(0),
                 weapon |-> Null,
                 damage |-> Null,
                 statusEffects |-> Null],
     dungeon |-> [level |-> 1],
     entities |-> [enemies |-> <<>>],
     inCombatMode |-> FALSE,
     accumulatedMovement |-> 0,
     statistics |-> [hungerDeaths |-> 0, combatDeaths |-> 0, turnsPlayed |-> 0],
     gameOver |-> FALSE,
     deathMessage |-> ""]

\* updatePlayerPosition(state, position)
updatePlayerPosition(state, position) ==
    [state EXCEPT !.player.position = position]

\* updatePlayerWorldPosition(state, worldPosition)
updatePlayerWorldPosition(state, worldPosition) ==
    [state EXCEPT !.player.worldPosition = worldPosition]

decreaseHungerCountsAgain(state, amount) ==
    LET newHunger == Max(0, state.player.hunger - amount)
        newState  == [state EXCEPT !.player.hunger = newHunger]
    IN  IF newHunger = 0
        THEN [newState EXCEPT !.gameOver = TRUE,
                              !.deathMessage = "You starved to death!",
                              !.statistics.hungerDeaths = @ + 1]
        ELSE newState

\* decreaseHunger(state, amount)
decreaseHunger(state, amount) ==
    LET newHunger == Max(0, state.player.hunger - amount)
        newState  == [state EXCEPT !.player.hunger = newHunger]
    IN  IF newHunger = 0 /\ ~state.gameOver
        THEN [newState EXCEPT !.gameOver = TRUE,
                              !.deathMessage = "You starved to death!",
                              !.statistics.hungerDeaths = @ + 1]
        ELSE newState

damagePlayerCountsAgain(state, damage) ==
    LET newHp    == Max(0, state.player.hp - damage)
        newState == [state EXCEPT !.player.hp = newHp]
    IN  IF newHp = 0
        THEN [newState EXCEPT !.gameOver = TRUE,
                              !.deathMessage = "You were slain in combat!",
                              !.statistics.combatDeaths = @ + 1]
        ELSE newState

\* damagePlayer(state, damage)
damagePlayer(state, damage) ==
    LET newHp    == Max(0, state.player.hp - damage)
        newState == [state EXCEPT !.player.hp = newHp]
    IN  IF newHp = 0 /\ ~state.gameOver
        THEN [newState EXCEPT !.gameOver = TRUE,
                              !.deathMessage = "You were slain in combat!",
                              !.statistics.combatDeaths = @ + 1]
        ELSE newState

\* incrementTurn(state)
incrementTurn(state) ==
    [state EXCEPT !.turnCount = @ + 1, !.statistics.turnsPlayed = @ + 1]

\* setCombatMode(state, inCombat)
setCombatMode(state, inCombat) == [state EXCEPT !.inCombatMode = inCombat]

\* updateAccumulatedMovement(state, distance)
updateAccumulatedMovement(state, distance) ==
    [state EXCEPT !.accumulatedMovement = @ + distance]

\* resetAccumulatedMovement(state)
resetAccumulatedMovement(state) == [state EXCEPT !.accumulatedMovement = 0]

getEffectiveMovementThresholdNoSpeed(statusEffects, baseThreshold) ==
    baseThreshold

\* getEffectiveMovementThreshold(statusEffects, baseThreshold)
getEffectiveMovementThreshold(statusEffects, baseThreshold) ==
    LET effects == IF statusEffects = Null THEN <<>> ELSE statusEffects[1]
    IN  IF hasStatusEffect(effects, STATUS_TYPES.SPEED)
        THEN baseThreshold * 2
        ELSE baseThreshold

\* shouldAdvanceTurn(accumulatedMovement, threshold)
shouldAdvanceTurn(accumulatedMovement, threshold) ==
    accumulatedMovement >= threshold

advanceTurnKeepMovement(state) ==
    decreaseHunger(incrementTurn(state), HUNGER_RATE)

\* advanceTurn(state)
advanceTurn(state) ==
    resetAccumulatedMovement(decreaseHunger(incrementTurn(state), HUNGER_RATE))

\* checkTurnAdvancement(state)
checkTurnAdvancement(state) ==
    shouldAdvanceTurn(state.accumulatedMovement,
        getEffectiveMovementThreshold(state.player.statusEffects,
                                      MOVEMENT_THRESHOLD))

\* Bounds of the states the turn manager is applied to.
MaxMovement == 6

MaxHunger == 3

MaxDuration == 2

\* The status-effect lists of the inputs: none (no field), empty, and lists
\* with and without a speed effect.
EffectLists ==
    {Null, Some(<<>>)}
    \cup {Some(<<createStatusEffect(t, d, 1)>>) :
            t \in {STATUS_TYPES.SPEED, STATUS_TYPES.STRENGTH}, d \in 1..MaxDuration}
    \cup {Some(<<createStatusEffect(STATUS_TYPES.STONE, MaxDuration, 1),
                 createStatusEffect(STATUS_TYPES.SPEED, d, 1)>>) :
            d \in 1..MaxDuration}

\* Running game states: the game is not over and the player is not starved.
TurnStates ==
    {[createInitialState EXCEPT !.turnCount = t,
                                !.statistics.turnsPlayed = t,
                                !.player.hunger = h,
                                !.player.statusEffects = e,
                                !.accumulatedMovement = m] :
        t \in 0..1, h \in 1..MaxHunger, e \in EffectLists, m \in 0..MaxMovement}

notTurn == <<combat, path, gameState, tick, gen>>

\* Either the arguments of a turn check, or the empty effect list of a new
\* actor, on which addStatusEffect and updateStatusEffects are then called.
TurnInit ==
    /\ \/ \E state \in TurnStates :
            turn = [op |-> "args", in |-> state, check |-> FALSE, out |-> state,
                    amount |-> HUNGER_RATE]
       \/ turn = [op |-> "effects", effects |-> <<>>, call |-> "none",
                  arg |-> Null, before |-> <<>>]
    /\ combat = CombatIdle
    /\ path = PathIdle
    /\ gameState = GameIdle
    /\ tick = TickIdle
    /\ gen = GenIdle

\* The pair of the update loop: if (checkTurnAdvancement(state)) state =
\* advanceTurn(state).
CallCheckAndAdvance ==
    /\ turn.op = "args"
    /\ turn' = [turn EXCEPT
                  !.op = "checked",
                  !.check = checkTurnAdvancement(turn.in),
                  !.out = IF checkTurnAdvancement(turn.in)
                          THEN advanceTurn(turn.in)
                          ELSE turn.in]
    /\ UNCHANGED notTurn

\* effects = addStatusEffect(effects, createStatusEffect(type, duration)).
CallAddStatusEffect ==
    /\ turn.op = "effects"
    /\ \E type \in {STATUS_TYPES.SPEED, STATUS_TYPES.STRENGTH},
          duration \in 1..(MaxDuration + 1) :
        LET effect == createStatusEffect(type, duration, 1)
        IN  turn' = [turn EXCEPT
                       !.effects = addStatusEffect(turn.effects, effect),
                       !.call = "addStatusEffect",
                       !.arg = Some(effect),
                       !.before = turn.effects]
    /\ UNCHANGED notTurn

\* effects = updateStatusEffects(effects).
CallUpdateStatusEffects ==
    /\ turn.op = "effects"
    /\ turn' = [turn EXCEPT
                  !.effects = updateStatusEffects(turn.effects),
                  !.call = "updateStatusEffects",
                  !.arg = Null,
                  !.before = turn.effects]
    /\ UNCHANGED notTurn

\* state = decreaseHunger(state, amount) on the state the pair returned, with
\* the default amount or with an amount beyond the hunger left.
CallDecreaseHunger ==
    /\ turn.op \in {"checked", "hunger"}
    /\ \E amount \in {HUNGER_RATE, MaxHunger} :
         turn' = [turn EXCEPT !.op = "hunger",
                              !.in = turn.out,
                              !.check = FALSE,
                              !.out = decreaseHunger(turn.out, amount),
                              !.amount = amount]
    /\ UNCHANGED notTurn

TurnNext ==
    \/ CallCheckAndAdvance
    \/ CallDecreaseHunger
    \/ CallAddStatusEffect
    \/ CallUpdateStatusEffects

SpecTurn == TurnInit /\ [][TurnNext]_vars

(***************************************************************************)
(* Turn-manager properties                                                 *)
(***************************************************************************)

HasSpeed(state) ==
    /\ state.player.statusEffects # Null
    /\ \E i \in 1..Len(state.player.statusEffects[1]) :
          state.player.statusEffects[1][i].type = "speed"

\* C2: from a state at or beyond the effective threshold (by any overshoot)
\* with hunger >= HUNGER_RATE, one checkTurnAdvancement + advanceTurn pair
\* increases turnCount by exactly 1, decreases hunger by exactly HUNGER_RATE
\* and sets accumulatedMovement to 0.
C2_PairAdvancesExactlyOneTurn ==
    (/\ turn.op = "checked"
     /\ turn.in.accumulatedMovement >=
            (IF HasSpeed(turn.in) THEN 2 * MOVEMENT_THRESHOLD ELSE MOVEMENT_THRESHOLD)
     /\ turn.in.player.hunger >= HUNGER_RATE)
    => /\ turn.out.turnCount = turn.in.turnCount + 1
       /\ turn.out.player.hunger = turn.in.player.hunger - HUNGER_RATE
       /\ turn.out.accumulatedMovement = 0

\* An overshoot of more than a whole threshold still advanced one turn.
C2_Witness ==
    /\ turn.op = "checked"
    /\ turn.check
    /\ ~HasSpeed(turn.in)
    /\ turn.in.accumulatedMovement >= 2 * MOVEMENT_THRESHOLD + 1
    /\ turn.out.turnCount = turn.in.turnCount + 1

\* C5: checkTurnAdvancement is true exactly when accumulatedMovement >=
\* MOVEMENT_THRESHOLD without a speed effect, and exactly when it is >=
\* 2 * MOVEMENT_THRESHOLD with one (a missing list counts as no effects).
C5_CheckIffThresholdReached ==
    turn.op = "checked" =>
        /\ ~HasSpeed(turn.in) =>
              (turn.check <=> turn.in.accumulatedMovement >= MOVEMENT_THRESHOLD)
        /\ HasSpeed(turn.in) =>
              (turn.check <=> turn.in.accumulatedMovement >= 2 * MOVEMENT_THRESHOLD)

\* With a speed effect, movement between one and two thresholds does not
\* advance the turn.
C5_Witness ==
    /\ turn.op = "checked"
    /\ HasSpeed(turn.in)
    /\ turn.in.accumulatedMovement >= MOVEMENT_THRESHOLD
    /\ turn.in.accumulatedMovement < 2 * MOVEMENT_THRESHOLD
    /\ ~turn.check

\* C24: hunger decreases by the hunger rate on each turn (by the amount
\* given, for a direct call) and never goes below 0; the decrease in which
\* hunger reaches 0 makes the game over with a starvation death and
\* increments hungerDeaths by exactly 1, and any other decrease, also a
\* further one at hunger 0, leaves hungerDeaths as it is.
C24_HungerDecaysAndStarvesOnce ==
    ((turn.op = "checked" /\ turn.check) \/ turn.op = "hunger") =>
        /\ turn.out.player.hunger
              = Max(0, turn.in.player.hunger - turn.amount)
        /\ turn.out.player.hunger >= 0
        /\ IF turn.in.player.hunger > 0 /\ turn.out.player.hunger = 0
           THEN /\ turn.out.gameOver
                /\ turn.out.deathMessage = "You starved to death!"
                /\ turn.out.statistics.hungerDeaths
                      = turn.in.statistics.hungerDeaths + 1
           ELSE /\ turn.out.statistics.hungerDeaths
                      = turn.in.statistics.hungerDeaths
                /\ turn.out.gameOver = turn.in.gameOver

\* A further decrease after the starvation: hungerDeaths is still 1.
C24_Witness ==
    /\ turn.op = "hunger"
    /\ turn.in.player.hunger = 0
    /\ turn.in.gameOver
    /\ turn.in.statistics.hungerDeaths = 1
    /\ turn.out.statistics.hungerDeaths = 1

C16_UpdateDecrementsAndExpires ==
    (turn.op = "effects" /\ turn.call = "updateStatusEffects") =>
        /\ \A i \in 1..Len(turn.before) :
              IF turn.before[i].turnsRemaining > 1
              THEN \E j \in 1..Len(turn.effects) :
                     turn.effects[j] =
                        [turn.before[i] EXCEPT !.turnsRemaining = @ - 1]
              ELSE \A j \in 1..Len(turn.effects) :
                     turn.effects[j].type # turn.before[i].type
        /\ \A j \in 1..Len(turn.effects) : turn.effects[j].turnsRemaining > 0
        /\ Len(turn.effects) =
              Cardinality({i \in 1..Len(turn.before) :
                              turn.before[i].turnsRemaining > 1})

\* One call dropped an effect on its last turn and kept another one.
C16_Witness ==
    /\ turn.op = "effects"
    /\ turn.call = "updateStatusEffects"
    /\ Len(turn.before) = 2
    /\ Len(turn.effects) = 1
    /\ turn.effects[1].turnsRemaining >= 1

(***************************************************************************)
(* Game controller (game-controller.js) with the modules it calls:         *)
(* movement.js, visibility.js, interaction.js, entity-manager.js           *)
(***************************************************************************)

COMBAT_DETECTION_RADIUS == 10

\* Bounds of the game explored: the hunger and hp of the player and the hp
\* of the enemies when the exploration starts, the longest move of one
\* tick (in metres) and the deepest level.
InitHunger == 3

InitHp == 3

InitEnemyHp == 2

MaxStep == 2

MaxLevel == 1

RoomCenterCorner(room) == Pos(room.x + room.width, room.y + room.height)

\* Room.center
RoomCenter(room) ==
    Pos((2 * room.x + room.width) \div 2, (2 * room.y + room.height) \div 2)

\* ENEMY_TYPES.RAT
ENEMY_TYPES ==
    [RAT |-> [name |-> "Rat", baseHP |-> 5, baseAC |-> 10,
              baseDamage |-> <<1, 3>>, xpValue |-> 10]]

\* createEnemy(type, position, dungeonLevel); the level multiplier
\* 1 + (dungeonLevel - 1) * 0.2 is (dungeonLevel + 4) / 5.  A type that is
\* not a key of ENEMY_TYPES throws: the record with the error field is the
\* Error thrown.
createEnemy(type, position, dungeonLevel) ==
    IF type \notin DOMAIN ENEMY_TYPES
    THEN [error |-> "Unknown enemy type", type |-> type]
    ELSE
    LET config == ENEMY_TYPES[type]
    IN  [type |-> type,
         position |-> position,
         hp |-> (config.baseHP * (dungeonLevel + 4)) \div 5,
         maxHp |-> (config.baseHP * (dungeonLevel + 4)) \div 5,
         ac |-> Some(config.baseAC + dungeonLevel \div 2),
         damage |-> Some(config.baseDamage),
         xpValue |-> (config.xpValue * (dungeonLevel + 4)) \div 5,
         isAlive |-> TRUE,
         attackBonus |-> Null,
         damageBonus |-> Null,
         weapon |-> Null]

\* isEntityAlive(entity)
isEntityAlive(entity) == entity.hp > 0 /\ entity.isAlive # FALSE

\* The dungeon the game is played in, in the shape generateDungeon returns:
\* three rooms joined by corridors inside a wall border, the stairs at the
\* centre of the last room, and floor(level * 1.5) spawns in the middle room.
GameGrid ==
    << <<"wall", "wall",  "wall",  "wall",        "wall">>,
       <<"wall", "floor", "floor", "floor",       "wall">>,
       <<"wall", "floor", "wall",  "stairs_down", "wall">>,
       <<"wall", "wall",  "wall",  "wall",        "wall">> >>

GameDungeon(level) ==
    [grid |-> GameGrid,
     rooms |-> <<[x |-> 1, y |-> 1, width |-> 1, height |-> 1],
                 [x |-> 3, y |-> 1, width |-> 1, height |-> 1],
                 [x |-> 3, y |-> 2, width |-> 1, height |-> 1]>>,
     stairsPosition |-> Pos(3, 2),
     enemySpawns |-> [i \in 1..((level * 3) \div 2) |->
                        [type |-> "RAT", position |-> Pos(3, 1), level |-> level]],
     level |-> level]

\* getPlayerStartPosition(dungeon)
getPlayerStartPosition(dungeon) ==
    IF Len(dungeon.rooms) = 0 THEN Pos(1, 1) ELSE RoomCenter(dungeon.rooms[1])

\* filterVisibleEntities(entities, visibleTiles)
filterVisibleEntities(entities, visibleTiles) ==
    SelectSeq(entities, LAMBDA e : e.position \in visibleTiles)

\* detectCombatMode(playerPos, enemies, radius): the distance is taken to
\* (enemy.position.x, enemy.position.z); a position without z gives NaN,
\* which is not <= radius.
detectCombatMode(playerPos, enemies, radius) ==
    \E i \in 1..Len(enemies) :
        /\ "z" \in DOMAIN enemies[i].position
        /\ (enemies[i].position.x - playerPos.x) * (enemies[i].position.x - playerPos.x)
             + (enemies[i].position.z - playerPos.z) * (enemies[i].position.z - playerPos.z)
           <= radius * radius

\* checkCollision that lets every position through.
checkCollisionAlways(newPosition, grid) == TRUE

\* checkCollision(newPosition, grid, worldToGrid, isWalkable)
checkCollision(newPosition, grid) ==
    isWalkable(grid, worldToGrid(newPosition.x, newPosition.z).x,
                     worldToGrid(newPosition.x, newPosition.z).y)

\* The results executeAttack can return for the outcomes of the d20 and of
\* the damage dice, as far as the controller reads them.
AttackOutcomes(attacker, defender) ==
    {[hit |-> r.hit, damage |-> r.damage] :
        r \in {executeAttack(attacker, defender, roll, rolls) :
                 roll \in rollD20,
                 rolls \in DiceOutcomes(attackDice(attacker).count,
                                        attackDice(attacker).sides)}}

\* processEnemies(): the states the pass over the enemies from the i-th on
\* can leave, one per outcome of the dice.
RECURSIVE processEnemies(_, _)
processEnemies(state, i) ==
    IF i > Len(state.entities.enemies) THEN {state}
    ELSE
      LET enemy == state.entities.enemies[i]
          action == processEnemyTurn(enemy, state.player.position,
                                     state.dungeon.grid)
      IN  IF ~isEntityAlive(enemy) THEN processEnemies(state, i + 1)
          ELSE IF action.action = "attack"
          THEN UNION {processEnemies(
                          IF r.hit THEN damagePlayer(state, r.damage) ELSE state,
                          i + 1) :
                        r \in AttackOutcomes(enemy, state.player)}
          ELSE IF action.action = "move"
          THEN processEnemies(
                  [state EXCEPT !.entities.enemies[i].position = action.newPosition],
                  i + 1)
          ELSE processEnemies(state, i + 1)

\* loadNewDungeonLevel(newLevel), and the same steps of createGame.
loadNewDungeonLevel(state, newLevel) ==
    LET dungeon  == GameDungeon(newLevel)
        startPos == getPlayerStartPosition(dungeon)
        visible  == computeVisibleTiles(dungeon.grid, startPos, VISIBILITY_RADIUS)
    IN  [state EXCEPT
            !.dungeon = dungeon,
            !.statistics.deepestLevel = Max(@, newLevel),
            !.player.position = startPos,
            !.player.worldPosition = gridToWorld(startPos.x, startPos.y),
            !.visibleTiles = visible,
            !.exploredTiles = updateExploredTiles({}, visible),
            !.entities.enemies =
                [i \in 1..Len(dungeon.enemySpawns) |->
                    createEnemy(dungeon.enemySpawns[i].type,
                                dungeon.enemySpawns[i].position, newLevel)]]

\* createGame(): the initial state with the first dungeon loaded.
createGame ==
    loadNewDungeonLevel(
        [f \in DOMAIN createInitialState
              \cup {"visibleTiles", "exploredTiles"} |->
            IF f \in {"visibleTiles", "exploredTiles"} THEN {}
            ELSE IF f = "statistics"
            THEN [hungerDeaths |-> 0, combatDeaths |-> 0, turnsPlayed |-> 0,
                  deepestLevel |-> 1]
            ELSE createInitialState[f]],
        1)

\* A game in progress: the player has been hungry and hurt, and the enemies
\* have been hurt, down to the values the exploration starts from.
GameInit ==
    /\ gameState =
          [createGame EXCEPT
              !.player.hunger = InitHunger,
              !.player.hp = InitHp,
              !.entities.enemies =
                  [i \in DOMAIN @ |-> [@[i] EXCEPT !.hp = InitEnemyHp]]]
    /\ tick = TickIdle
    /\ gen = GenIdle
    /\ combat = CombatIdle
    /\ path = PathIdle
    /\ turn = TurnIdle

notGame == <<combat, path, turn, gen>>

\* The moves of one tick: along one axis, by a whole number of metres.
Moves ==
    {[dx |-> d, dz |-> 0] : d \in (-MaxStep)..MaxStep}
    \cup {[dx |-> 0, dz |-> d] : d \in (-MaxStep)..MaxStep}

\* The part of update() after the movement with the enemy pass run before
\* the turn is advanced.
AfterMoveEnemiesFirst(state, newWorldPos, moveDistance) ==
    LET acc == updateAccumulatedMovement(state, moveDistance)
        SetMode(st) ==
            setCombatMode(st,
                detectCombatMode(newWorldPos,
                    filterVisibleEntities(
                        SelectSeq(st.entities.enemies, isEntityAlive),
                        st.visibleTiles),
                    COMBAT_DETECTION_RADIUS))
    IN  IF checkTurnAdvancement(acc)
        THEN {[state |-> SetMode(advanceTurn(st)), enemyPass |-> TRUE] :
                st \in processEnemies(acc, 1)}
        ELSE {[state |-> SetMode(acc), enemyPass |-> FALSE]}

\* The part of update() after the movement has been applied: accumulate the
\* distance, advance the turn and run the enemy pass when the threshold is
\* reached, then set the combat mode.  Gives the possible pairs of the new
\* state and whether the enemy pass ran.
AfterMove(state, newWorldPos, moveDistance) ==
    LET acc == updateAccumulatedMovement(state, moveDistance)
        SetMode(st) ==
            setCombatMode(st,
                detectCombatMode(newWorldPos,
                    filterVisibleEntities(
                        SelectSeq(st.entities.enemies, isEntityAlive),
                        st.visibleTiles),
                    COMBAT_DETECTION_RADIUS))
    IN  IF checkTurnAdvancement(acc)
        THEN {[state |-> SetMode(st), enemyPass |-> TRUE] :
                st \in processEnemies(advanceTurn(acc), 1)}
        ELSE {[state |-> SetMode(acc), enemyPass |-> FALSE]}

\* update() without its return on gameOver.
UpdateAfterGameOver ==
    \E move \in Moves :
      LET moveDistance == Abs(move.dx) + Abs(move.dz)
          newWorldPos  == [x |-> gameState.player.worldPosition.x + move.dx,
                           z |-> gameState.player.worldPosition.z + move.dz]
          gridPos      == worldToGrid(newWorldPos.x, newWorldPos.z)
          moved        == updatePlayerWorldPosition(gameState, newWorldPos)
          entered      ==
              IF gridPos # gameState.player.position
              THEN [updatePlayerPosition(moved, gridPos) EXCEPT
                      !.visibleTiles =
                          computeVisibleTiles(gameState.dungeon.grid, gridPos,
                                              VISIBILITY_RADIUS),
                      !.exploredTiles =
                          updateExploredTiles(@,
                              computeVisibleTiles(gameState.dungeon.grid, gridPos,
                                                  VISIBILITY_RADIUS))]
              ELSE moved
      IN  IF moveDistance = 0
             \/ ~checkCollision(newWorldPos, gameState.dungeon.grid)
          THEN /\ gameState' = gameState
               /\ tick' = [op |-> "update", enemyPass |-> FALSE]
               /\ UNCHANGED notGame
          ELSE \E r \in AfterMove(entered, newWorldPos, moveDistance) :
               /\ gameState' = r.state
               /\ tick' = [op |-> "update", enemyPass |-> r.enemyPass]
               /\ UNCHANGED notGame

\* update(): one tick of the game loop with the movement input `move`.
Update ==
    \E move \in Moves :
      LET moveDistance == Abs(move.dx) + Abs(move.dz)
          newWorldPos  == [x |-> gameState.player.worldPosition.x + move.dx,
                           z |-> gameState.player.worldPosition.z + move.dz]
          gridPos      == worldToGrid(newWorldPos.x, newWorldPos.z)
          moved        == updatePlayerWorldPosition(gameState, newWorldPos)
          entered      ==
              IF gridPos # gameState.player.position
              THEN [updatePlayerPosition(moved, gridPos) EXCEPT
                      !.visibleTiles =
                          computeVisibleTiles(gameState.dungeon.grid, gridPos,
                                              VISIBILITY_RADIUS),
                      !.exploredTiles =
                          updateExploredTiles(@,
                              computeVisibleTiles(gameState.dungeon.grid, gridPos,
                                                  VISIBILITY_RADIUS))]
              ELSE moved
      IN  IF gameState.gameOver
             \/ moveDistance = 0
             \/ ~checkCollision(newWorldPos, gameState.dungeon.grid)
          THEN /\ gameState' = gameState
               /\ tick' = [op |-> "update", enemyPass |-> FALSE]
               /\ UNCHANGED notGame
          ELSE \E r \in AfterMove(entered, newWorldPos, moveDistance) :
               /\ gameState' = r.state
               /\ tick' = [op |-> "update", enemyPass |-> r.enemyPass]
               /\ UNCHANGED notGame

\* The first live enemy standing on the player's tile, 0 when there is none
\* (findInteractablesAtPosition and getInteractionAction).
EnemyToAttack(state) ==
    LET here(i) == /\ isEntityAlive(state.entities.enemies[i])
                   /\ state.entities.enemies[i].position = state.player.position
    IN  IF \E i \in 1..Len(state.entities.enemies) : here(i)
        THEN CHOOSE i \in 1..Len(state.entities.enemies) :
                here(i) /\ \A j \in 1..(i - 1) : ~here(j)
        ELSE 0

\* The enemy after the player's attack result r: hp reduced, dead at hp <= 0.
AttackedEnemy(enemy, r) ==
    IF ~r.hit THEN enemy
    ELSE [enemy EXCEPT !.hp = @ - r.damage,
                       !.isAlive = IF enemy.hp - r.damage <= 0 THEN FALSE ELSE @]

\* interact(): attack the enemy on the player's tile and run the enemy pass,
\* or descend the stairs.  The generated dungeon has no item spawns, so
\* there is nothing to pick up.
Interact ==
    LET target == EnemyToAttack(gameState)
        tile == TileAt(gameState.dungeon.grid, gameState.player.position.x,
                       gameState.player.position.y)
    IN  IF gameState.gameOver
        THEN /\ gameState' = gameState
             /\ tick' = [op |-> "interact", enemyPass |-> FALSE]
             /\ UNCHANGED notGame
        ELSE IF target > 0
        THEN \E r \in AttackOutcomes(gameState.player,
                                     gameState.entities.enemies[target]) :
             \E st \in processEnemies(
                          [gameState EXCEPT !.entities.enemies[target] =
                                                AttackedEnemy(@, r)], 1) :
               /\ gameState' = st
               /\ tick' = [op |-> "interact", enemyPass |-> TRUE]
               /\ UNCHANGED notGame
        ELSE IF tile = "stairs_down" /\ gameState.dungeon.level < MaxLevel
        THEN /\ gameState' = loadNewDungeonLevel(gameState,
                                                 gameState.dungeon.level + 1)
             /\ tick' = [op |-> "interact", enemyPass |-> FALSE]
             /\ UNCHANGED notGame
        ELSE /\ gameState' = gameState
             /\ tick' = [op |-> "interact", enemyPass |-> FALSE]
             /\ UNCHANGED notGame

\* The effects of useItem on a potion of speed and on a potion of strength
\* (no prefix, multiplier 1).
PotionEffects ==
    {createStatusEffect(STATUS_TYPES.SPEED, 8, 1),
     createStatusEffect(STATUS_TYPES.STRENGTH, 12, 5)}

\* useItem(inventory, slot, state) on a potion: the effect list is created
\* when missing and the effect is added to it.
UsePotion ==
    /\ ~gameState.gameOver
    /\ \E effect \in PotionEffects :
         gameState' =
            [gameState EXCEPT !.player.statusEffects =
                Some(addStatusEffect(IF @ = Null THEN <<>> ELSE @[1], effect))]
    /\ tick' = [op |-> "useItem", enemyPass |-> FALSE]
    /\ UNCHANGED notGame

Next ==
    \/ Update
    \/ Interact
    \/ UsePotion

Spec == GameInit /\ [][Next]_vars

(***************************************************************************)
(* 32-bit words.  Math.imul, ^, | and >>> work on 32-bit integers; a word  *)
(* is kept as two 16-bit halves and multiplied byte by byte so that no     *)
(* intermediate value leaves the signed 32-bit range.                      *)
(***************************************************************************)

Half == 65536

Byte == 256

\* The word of a number (ToInt32/ToUint32 of a non-negative integer below 2^31).
ToWord(n) == [hi |-> (n \div Half) % Half, lo |-> n % Half]

\* x ^ y and x | y on 4-bit numbers, tabulated bit by bit.
Nibble == 16

XorNibble ==
    [x \in 0..(Nibble - 1) |-> [y \in 0..(Nibble - 1) |->
        ((x + y) % 2)
        + 2 * (((x \div 2) + (y \div 2)) % 2)
        + 4 * (((x \div 4) + (y \div 4)) % 2)
        + 8 * (((x \div 8) + (y \div 8)) % 2)]]

OrNibble ==
    [x \in 0..(Nibble - 1) |-> [y \in 0..(Nibble - 1) |->
        Max(x % 2, y % 2)
        + 2 * Max((x \div 2) % 2, (y \div 2) % 2)
        + 4 * Max((x \div 4) % 2, (y \div 4) % 2)
        + 8 * Max((x \div 8) % 2, (y \div 8) % 2)]]

\* A nibble table applied to the four nibbles of two 16-bit numbers.
Nibbles16(table, x, y) ==
    table[x % Nibble][y % Nibble]
    + Nibble * table[(x \div Nibble) % Nibble][(y \div Nibble) % Nibble]
    + Byte * table[(x \div Byte) % Nibble][(y \div Byte) % Nibble]
    + Byte * Nibble * table[x \div (Byte * Nibble)][y \div (Byte * Nibble)]

\* a ^ b
Xor32(a, b) ==
    CHOOSE w \in {[hi |-> Nibbles16(XorNibble, x.hi, y.hi),
                   lo |-> Nibbles16(XorNibble, x.lo, y.lo)] :
                      x \in {a}, y \in {b}} : TRUE

\* a | b
Or32(a, b) ==
    CHOOSE w \in {[hi |-> Nibbles16(OrNibble, x.hi, y.hi),
                   lo |-> Nibbles16(OrNibble, x.lo, y.lo)] :
                      x \in {a}, y \in {b}} : TRUE

\* (a + b) | 0
Add32(a, b) ==
    CHOOSE w \in {[hi |-> (x.hi + y.hi + ((x.lo + y.lo) \div Half)) % Half,
                   lo |-> (x.lo + y.lo) % Half] :
                      x \in {a}, y \in {b}} : TRUE

\* 2^k for the shifts used.
RECURSIVE Pow2(_)
Pow2(k) == IF k = 0 THEN 1 ELSE 2 * Pow2(k - 1)

\* a >>> k, for 0 < k < 16
Shr32(a, k) ==
    [hi |-> a.hi \div Pow2(k),
     lo |-> (a.lo \div Pow2(k)) + (a.hi % Pow2(k)) * Pow2(16 - k)]

\* The low 16 bits of x * y, and the whole product of two halves as a word.
MulLow16(x, y) ==
    ((x % Byte) * (y % Byte)
       + ((((x \div Byte) * (y % Byte) + (x % Byte) * (y \div Byte)) % Byte) * Byte))
    % Half

Mul16(x, y) ==
    LET p0 == (x % Byte) * (y % Byte)
        p1 == (x \div Byte) * (y % Byte) + (x % Byte) * (y \div Byte)
        p2 == (x \div Byte) * (y \div Byte)
        low == p0 + (p1 % Byte) * Byte
    IN  [hi |-> (low \div Half) + (p1 \div Byte) + p2, lo |-> low % Half]

\* Math.imul(a, b)
Imul(a, b) ==
    CHOOSE w \in {[hi |-> (low.hi + MulLow16(x.hi, y.lo) + MulLow16(x.lo, y.hi)) % Half,
                   lo |-> low.lo] :
                      low \in {Mul16(a.lo, b.lo)}, x \in {a}, y \in {b}} : TRUE

(***************************************************************************)
(* Dungeon generator (dungeon-generator.js)                                *)
(***************************************************************************)

MIN_ROOMS == 6

MAX_ROOMS == 9

MIN_ROOM_SIZE == 3

MAX_ROOM_SIZE == 8

\* A generator created once and kept between calls: the constructor hands
\* back the generator the last call left behind.
SeededRandomShared(seed) ==
    IF Len(gen.returned) > 0 THEN gen.rng ELSE [seed |-> ToWord(seed)]

\* new SeededRandom(seed): the generator object is its seed field.  The
\* field grows by 0x6D2B79F5 per draw without being truncated; every use of
\* it is through 32-bit operators, so it is kept modulo 2^32.
SeededRandom(seed) == [seed |-> ToWord(seed)]

\* The 32-bit words.
Word == [hi : 0..(Half - 1), lo : 0..(Half - 1)]

\* 0x6D2B79F5
Increment == [hi |-> 27947, lo |-> 31221]

\* The three assignments to t of SeededRandom.next() after the addition:
\* t = Math.imul(t ^ t >>> 15, t | 1)
Mix1[t \in Word] == Imul(Xor32(t, Shr32(t, 15)), Or32(t, ToWord(1)))

\* t ^= t + Math.imul(t ^ t >>> 7, t | 61)
Mix2[t \in Word] ==
    Xor32(t, Add32(t, Imul(Xor32(t, Shr32(t, 7)), Or32(t, ToWord(61)))))

\* (t ^ t >>> 14) >>> 0
Mix3[t \in Word] == Xor32(t, Shr32(t, 14))

\* SeededRandom.next(): the generator after the draw and the numerator u of
\* the fraction u / 2^32 it returns.
RngNext(rng) ==
    [rng |-> [seed |-> Add32(rng.seed, Increment)],
     u |-> Mix3[Mix2[Mix1[Add32(rng.seed, Increment)]]]]

\* Math.floor(u / 2^32 * n): the products are exact in double precision.
ScaleFloor(u, n) == (u.hi * n + ((u.lo * n) \div Half)) \div Half

\* SeededRandom.nextInt(min, max)
RngNextInt(rng, min, max) ==
    CHOOSE r \in {[rng |-> draw.rng,
                   value |-> ScaleFloor(draw.u, max - min + 1) + min] :
                      draw \in {RngNext(rng)}} : TRUE

\* Bounds of the generator runs explored: the levels 1..MaxGenLevel, the
\* grid size and the number of calls in one run.
MaxGenLevel == 2

GenWidth == 20

GenHeight == 20

MaxCalls == 2

\* The entries of ENEMY_TYPES in the order Object.entries lists them, and
\* their spawnDepth and spawnWeight.
ENEMY_TYPE_NAMES == <<"GOBLIN", "SKELETON", "SLIME", "DRAGON">>

SPAWN_CONFIG ==
    [GOBLIN   |-> [spawnDepth |-> 1, spawnWeight |-> 10],
     SKELETON |-> [spawnDepth |-> 3, spawnWeight |-> 7],
     SLIME    |-> [spawnDepth |-> 1, spawnWeight |-> 8],
     DRAGON   |-> [spawnDepth |-> 7, spawnWeight |-> 2]]

\* new Room(x, y, width, height)
Room(x, y, width, height) == [x |-> x, y |-> y, width |-> width, height |-> height]

\* Room.intersects(other) with the other comparisons dropped: only an
\* origin of `other` inside `this` is found.
intersectsOriginOnly(this, other) ==
    /\ this.x <= other.x
    /\ this.x + this.width >= other.x
    /\ this.y <= other.y
    /\ this.y + this.height >= other.y

\* Room.intersects(other)
intersects(this, other) ==
    /\ this.x <= other.x + other.width
    /\ this.x + this.width >= other.x
    /\ this.y <= other.y + other.height
    /\ this.y + this.height >= other.y

WallGridFloor(width, height) == [y \in 1..height |-> [x \in 1..width |-> "floor"]]

\* Array(height).fill(null).map(() => Array(width).fill('wall'))
WallGrid(width, height) == [y \in 1..height |-> [x \in 1..width |-> "wall"]]

\* createRoom(grid, room): the tiles of the room become floor.  The tile
\* (x, y) is grid[y + 1][x + 1].
createRoom(grid, room) ==
    [y \in 1..Len(grid) |->
        [x \in 1..Len(grid[y]) |->
            IF /\ (x - 1) \in room.x..(room.x + room.width - 1)
               /\ (y - 1) \in room.y..(room.y + room.height - 1)
            THEN "floor"
            ELSE grid[y][x]]]

\* The coordinates a corridor leg walks through, ends included.
Between(a, b) == Min(a, b)..Max(a, b)

\* rng.next() > 0.5
AboveHalf(u) == u.hi > 32768 \/ (u.hi = 32768 /\ u.lo > 0)

\* A corridor loop that walks two tiles at a time.
RECURSIVE corridorLoopByTwo(_, _, _)
corridorLoopByTwo(x, end, fuel) ==
    IF x = end THEN [done |-> TRUE, carved |-> {}]
    ELSE IF fuel = 0 THEN [done |-> FALSE, carved |-> {}]
    ELSE CHOOSE result \in
           {[done |-> rest.done, carved |-> {x} \cup rest.carved] :
              rest \in {corridorLoopByTwo(IF x < end THEN x + 2 ELSE x - 2,
                                          end, fuel - 1)}} : TRUE

\* One loop of createCorridor, while (x !== end.x) { carve; x += x < end.x
\* ? 1 : -1 }, run for `fuel` iterations at most: the coordinates carved
\* along the leg and whether the loop has reached its end.
RECURSIVE corridorLoop(_, _, _)
corridorLoop(x, end, fuel) ==
    IF x = end THEN [done |-> TRUE, carved |-> {}]
    ELSE IF fuel = 0 THEN [done |-> FALSE, carved |-> {}]
    ELSE CHOOSE result \in
           {[done |-> rest.done, carved |-> {x} \cup rest.carved] :
              rest \in {corridorLoop(IF x < end THEN x + 1 ELSE x - 1,
                                     end, fuel - 1)}} : TRUE

\* createCorridor with its second loop left out.
OnCorridorFirstLeg(start, end, horizontalFirst, x, y) ==
    IF horizontalFirst
    THEN y = start.y /\ x \in Between(start.x, end.x)
    ELSE x = start.x /\ y \in Between(start.y, end.y)

\* The tiles createCorridor sets to floor: its two loops and its last
\* assignment carve the leg along the first axis from start and the leg
\* along the other axis into end.
OnCorridor(start, end, horizontalFirst, x, y) ==
    IF horizontalFirst
    THEN \/ y = start.y /\ x \in Between(start.x, end.x)
         \/ x = end.x /\ y \in Between(start.y, end.y)
    ELSE \/ x = start.x /\ y \in Between(start.y, end.y)
         \/ y = end.y /\ x \in Between(start.x, end.x)

\* createCorridor(grid, start, end, rng): one draw chooses the leg walked
\* first.
createCorridor(grid, start, end, rng) ==
    CHOOSE result \in
        {[grid |-> [y \in 1..Len(grid) |->
                      [x \in 1..Len(grid[y]) |->
                          IF OnCorridor(start, end, AboveHalf(draw.u), x - 1, y - 1)
                          THEN "floor"
                          ELSE grid[y][x]]],
          rng |-> draw.rng] : draw \in {RngNext(rng)}} : TRUE

\* getAvailableEnemyTypes(level)
getAvailableEnemyTypes(level) ==
    LET available == SelectSeq(ENEMY_TYPE_NAMES,
                               LAMBDA t : level >= SPAWN_CONFIG[t].spawnDepth)
    IN  IF Len(available) > 0 THEN available ELSE <<"GOBLIN">>

\* u / 2^32 * total - partial <= 0, exactly.
ScaledAtMost(u, total, partial) ==
    LET q == u.hi * total + ((u.lo * total) \div Half)
        r == (u.lo * total) % Half
    IN  q < partial * Half \/ (q = partial * Half /\ r = 0)

\* selectEnemyType(rng, availableTypes, level)
selectEnemyType(rng, availableTypes) ==
    LET weights == [i \in 1..Len(availableTypes) |->
                      SPAWN_CONFIG[availableTypes[i]].spawnWeight]
        totalWeight == SumSeq(weights)
        Reached(u, i) == ScaledAtMost(u, totalWeight, SumSeq(SubSeq(weights, 1, i)))
        First(u) == IF \E i \in 1..Len(availableTypes) : Reached(u, i)
                    THEN CHOOSE i \in 1..Len(availableTypes) :
                            Reached(u, i) /\ \A j \in 1..(i - 1) : ~Reached(u, j)
                    ELSE Len(availableTypes)
    IN  CHOOSE result \in
            {[rng |-> draw.rng, type |-> availableTypes[First(draw.u)]] :
                draw \in {RngNext(rng)}} : TRUE

SpawnRoomsWithLast(rooms) ==
    IF Len(rooms) > 1 THEN SubSeq(rooms, 2, Len(rooms)) ELSE <<>>

\* rooms.slice(1, -1): the rooms but the first and the last.
SpawnRooms(rooms) ==
    IF Len(rooms) > 2 THEN SubSeq(rooms, 2, Len(rooms) - 1) ELSE <<>>

\* The room loop of generateDungeon on a grid of any size, run to its end
\* or to the first exception.  grid[y][x] = 'floor' throws a TypeError
\* when grid[y] is undefined, that is when y is not a row of the grid; a
\* column outside the row only adds a property to the row.  A corridor
\* and the stairs write to rows between centres of rooms already carved.
RECURSIVE roomLoop(_, _, _)
roomLoop(state, width, height) ==
    CHOOSE end \in UNION {
      IF s.error # "none" \/ s.i >= s.numRooms
      THEN {s}
      ELSE UNION {UNION {UNION {UNION {
             {roomLoop(
                IF \E k \in 1..Len(s.rooms) : intersects(newRoom, s.rooms[k])
                THEN [s EXCEPT !.rng = y.rng, !.i = @ + 1]
                ELSE IF \E row \in newRoom.y..(newRoom.y + newRoom.height - 1) :
                           row \notin 0..(height - 1)
                THEN [s EXCEPT !.error = "TypeError"]
                ELSE [s EXCEPT
                        !.rng = IF Len(s.rooms) > 0 THEN RngNext(y.rng).rng ELSE y.rng,
                        !.rooms = Append(@, newRoom),
                        !.i = @ + 1],
                width, height) :
               newRoom \in {Room(x.value, y.value, roomWidth.value, roomHeight.value)}} :
               y \in {RngNextInt(x.rng, 1, height - roomHeight.value - 1)}} :
               x \in {RngNextInt(roomHeight.rng, 1, width - roomWidth.value - 1)}} :
               roomHeight \in {RngNextInt(roomWidth.rng, MIN_ROOM_SIZE, MAX_ROOM_SIZE)}} :
               roomWidth \in {RngNextInt(s.rng, MIN_ROOM_SIZE, MAX_ROOM_SIZE)}} :
      s \in {state}} : TRUE

\* generateDungeon(seed, level, width, height) as one call: the exception
\* it ends with, or the rooms and the stairs of the value it returns.
\* Array(n) throws a RangeError for a negative n; the rows are only made
\* when there is a row to make.
generateDungeonOutcome(seed, level, width, height) ==
    IF height < 0 \/ (height > 0 /\ width < 0)
    THEN [error |-> "RangeError"]
    ELSE CHOOSE out \in UNION {
           {IF loop.error # "none"
            THEN [error |-> loop.error]
            ELSE [error |-> "none",
                  rooms |-> loop.rooms,
                  stairsPosition |-> RoomCenter(loop.rooms[Len(loop.rooms)]),
                  width |-> width,
                  height |-> height] :
              loop \in {roomLoop([rng |-> numRooms.rng, rooms |-> <<>>, i |-> 0,
                                  numRooms |-> numRooms.value, error |-> "none"],
                                 width, height)}} :
           numRooms \in {RngNextInt(SeededRandom(seed), MIN_ROOMS, MAX_ROOMS)}} : TRUE

notGen == <<combat, path, turn, gameState, tick>>

\* The seeds of the calls explored.
Seeds == {0, 3, 5, 10, 99999}

\* No call of generateDungeon has been made.
GenInit ==
    /\ gen = [pc |-> "idle", seed |-> 0, level |-> 1,
              width |-> GenWidth, height |-> GenHeight,
              rng |-> Null, grid |-> <<>>, rooms |-> <<>>,
              numRooms |-> 0, i |-> 0,
              stairsPosition |-> Null, enemyCount |-> 0, spawns |-> <<>>,
              returned |-> <<>>]
    /\ combat = CombatIdle
    /\ path = PathIdle
    /\ turn = TurnIdle
    /\ gameState = GameIdle
    /\ tick = TickIdle

\* generateDungeon seeding its generator with the seed and the level.
GenerateBeginSeedPerLevel ==
    /\ gen.pc = "idle"
    /\ Len(gen.returned) < MaxCalls
    /\ \E seed \in Seeds, level \in 1..MaxGenLevel :
       \E numRooms \in {RngNextInt(SeededRandom(seed + level), MIN_ROOMS, MAX_ROOMS)} :
         gen' = [gen EXCEPT !.pc = "rooms",
                            !.seed = seed,
                            !.level = level,
                            !.rng = numRooms.rng,
                            !.grid = WallGrid(gen.width, gen.height),
                            !.rooms = <<>>,
                            !.numRooms = numRooms.value,
                            !.i = 0,
                            !.stairsPosition = Null,
                            !.enemyCount = 0,
                            !.spawns = <<>>]
    /\ UNCHANGED notGen

\* generateDungeon(seed, level, width, height) up to its loop: the
\* generator object, the grid of walls, the number of rooms to attempt.
GenerateBegin ==
    /\ gen.pc = "idle"
    /\ Len(gen.returned) < MaxCalls
    /\ \E seed \in Seeds, level \in 1..MaxGenLevel :
       \E numRooms \in {RngNextInt(SeededRandom(seed), MIN_ROOMS, MAX_ROOMS)} :
         gen' = [gen EXCEPT !.pc = "rooms",
                            !.seed = seed,
                            !.level = level,
                            !.rng = numRooms.rng,
                            !.grid = WallGrid(gen.width, gen.height),
                            !.rooms = <<>>,
                            !.numRooms = numRooms.value,
                            !.i = 0,
                            !.stairsPosition = Null,
                            !.enemyCount = 0,
                            !.spawns = <<>>]
    /\ UNCHANGED notGen

\* The room loop with a candidate that overlaps tried again instead of
\* skipped: the attempt is not counted.
GenerateRoomRetryOverlap ==
    /\ gen.pc = "rooms"
    /\ gen.i < gen.numRooms
    /\ \E roomWidth \in {RngNextInt(gen.rng, MIN_ROOM_SIZE, MAX_ROOM_SIZE)} :
       \E roomHeight \in {RngNextInt(roomWidth.rng, MIN_ROOM_SIZE, MAX_ROOM_SIZE)} :
       \E x \in {RngNextInt(roomHeight.rng, 1, gen.width - roomWidth.value - 1)} :
       \E y \in {RngNextInt(x.rng, 1, gen.height - roomHeight.value - 1)} :
       \E newRoom \in {Room(x.value, y.value, roomWidth.value, roomHeight.value)} :
         IF \E k \in 1..Len(gen.rooms) : intersects(newRoom, gen.rooms[k])
         THEN gen' = gen
         ELSE \E carved \in {createRoom(gen.grid, newRoom)} :
              IF Len(gen.rooms) > 0
              THEN \E corridor \in
                       {createCorridor(carved,
                                       RoomCenter(gen.rooms[Len(gen.rooms)]),
                                       RoomCenter(newRoom), y.rng)} :
                     gen' = [gen EXCEPT !.rng = corridor.rng,
                                        !.grid = corridor.grid,
                                        !.rooms = Append(@, newRoom),
                                        !.i = @ + 1]
              ELSE gen' = [gen EXCEPT !.rng = y.rng,
                                      !.grid = carved,
                                      !.rooms = Append(@, newRoom),
                                      !.i = @ + 1]
    /\ UNCHANGED notGen

\* One iteration of the room loop of generateDungeon: four draws make the
\* candidate room; if it intersects no room of the list it is carved,
\* joined to the previous room by a corridor, and pushed.
GenerateRoom ==
    /\ gen.pc = "rooms"
    /\ gen.i < gen.numRooms
    /\ \E roomWidth \in {RngNextInt(gen.rng, MIN_ROOM_SIZE, MAX_ROOM_SIZE)} :
       \E roomHeight \in {RngNextInt(roomWidth.rng, MIN_ROOM_SIZE, MAX_ROOM_SIZE)} :
       \E x \in {RngNextInt(roomHeight.rng, 1, gen.width - roomWidth.value - 1)} :
       \E y \in {RngNextInt(x.rng, 1, gen.height - roomHeight.value - 1)} :
       \E newRoom \in {Room(x.value, y.value, roomWidth.value, roomHeight.value)} :
         IF \E k \in 1..Len(gen.rooms) : intersects(newRoom, gen.rooms[k])
         THEN gen' = [gen EXCEPT !.rng = y.rng, !.i = @ + 1]
         ELSE \E carved \in {createRoom(gen.grid, newRoom)} :
              IF Len(gen.rooms) > 0
              THEN \E corridor \in
                       {createCorridor(carved,
                                       RoomCenter(gen.rooms[Len(gen.rooms)]),
                                       RoomCenter(newRoom), y.rng)} :
                     gen' = [gen EXCEPT !.rng = corridor.rng,
                                        !.grid = corridor.grid,
                                        !.rooms = Append(@, newRoom),
                                        !.i = @ + 1]
              ELSE gen' = [gen EXCEPT !.rng = y.rng,
                                      !.grid = carved,
                                      !.rooms = Append(@, newRoom),
                                      !.i = @ + 1]
    /\ UNCHANGED notGen

\* generateDungeon after the room loop: the stairs at the centre of the
\* last room and the number of enemies to spawn.
GenerateStairs ==
    /\ gen.pc = "rooms"
    /\ gen.i >= gen.numRooms
    /\ \E stairsPosition \in {RoomCenter(gen.rooms[Len(gen.rooms)])} :
         gen' = [gen EXCEPT
                   !.pc = "spawns",
                   !.i = 0,
                   !.stairsPosition = stairsPosition,
                   !.grid[stairsPosition.y + 1][stairsPosition.x + 1] =
                        "stairs_down",
                   !.enemyCount = (gen.level * 3) \div 2,
                   !.spawns = <<>>]
    /\ UNCHANGED notGen

\* One iteration of the loop of generateEnemySpawns: a room of the spawn
\* rooms, a position inside it, and, unless the position is the stairs, an
\* enemy type.
GenerateSpawn ==
    /\ gen.pc = "spawns"
    /\ Len(SpawnRooms(gen.rooms)) > 0
    /\ gen.i < gen.enemyCount
    /\ \E spawnRooms \in {SpawnRooms(gen.rooms)} :
       \E pick \in {RngNextInt(gen.rng, 0, Len(spawnRooms) - 1)} :
       \E room \in {spawnRooms[pick.value + 1]} :
       \E px \in {RngNextInt(pick.rng, room.x + 1, room.x + room.width - 2)} :
       \E py \in {RngNextInt(px.rng, room.y + 1, room.y + room.height - 2)} :
         IF Pos(px.value, py.value) = gen.stairsPosition
         THEN gen' = [gen EXCEPT !.rng = py.rng, !.i = @ + 1]
         ELSE \E chosen \in {selectEnemyType(py.rng,
                                             getAvailableEnemyTypes(gen.level))} :
                gen' = [gen EXCEPT
                          !.rng = chosen.rng,
                          !.i = @ + 1,
                          !.spawns = Append(@, [type |-> chosen.type,
                                                position |-> Pos(px.value, py.value),
                                                level |-> gen.level])]
    /\ UNCHANGED notGen

\* The return of generateEnemySpawns (at once when there is no spawn room)
\* and of generateDungeon.
GenerateReturn ==
    /\ gen.pc = "spawns"
    /\ Len(SpawnRooms(gen.rooms)) = 0 \/ gen.i >= gen.enemyCount
    /\ gen' = [gen EXCEPT
                 !.pc = "idle",
                 !.returned = Append(@,
                     [seed |-> gen.seed, level |-> gen.level,
                      dungeon |-> [grid |-> gen.grid,
                                   rooms |-> gen.rooms,
                                   stairsPosition |-> gen.stairsPosition,
                                   enemySpawns |-> gen.spawns,
                                   width |-> gen.width,
                                   height |-> gen.height]])]
    /\ UNCHANGED notGen

\* The dimensions of the calls of generateDungeon that have a width or a
\* height that is not positive.
InvalidDimensions ==
    {d \in {-1, 0, GenWidth} \X {-1, 0, GenHeight} : d[1] <= 0 \/ d[2] <= 0}

\* A call of generateDungeon with a width or a height that is not
\* positive, from its first line to its exception or its return.
GenerateInvalid ==
    /\ gen.pc = "idle"
    /\ Len(gen.returned) < MaxCalls
    /\ \E seed \in Seeds, level \in 1..MaxGenLevel, d \in InvalidDimensions :
       \E out \in {generateDungeonOutcome(seed, level, d[1], d[2])} :
         gen' = [pc |-> "generateDungeon",
                 call |-> [seed |-> seed, level |-> level,
                           width |-> d[1], height |-> d[2], out |-> out]] @@ gen
    /\ UNCHANGED notGen

\* A call of createEnemy with a key of ENEMY_TYPES or with another key.
CallCreateEnemy ==
    /\ gen.pc = "idle"
    /\ Len(gen.returned) < MaxCalls
    /\ \E type \in DOMAIN ENEMY_TYPES \cup {"UNKNOWN"}, dungeonLevel \in 1..MaxGenLevel :
       \E out \in {createEnemy(type, Pos(0, 0), dungeonLevel)} :
         gen' = [pc |-> "createEnemy",
                 call |-> [type |-> type, dungeonLevel |-> dungeonLevel,
                           out |-> out]] @@ gen
    /\ UNCHANGED notGen

GenNext ==
    \/ GenerateBegin
    \/ GenerateRoom
    \/ GenerateStairs
    \/ GenerateSpawn
    \/ GenerateReturn
    \/ GenerateInvalid
    \/ CallCreateEnemy

SpecGen == GenInit /\ [][GenNext]_vars

\* generateDungeon is synchronous code run to completion: a call that has
\* started takes every step it can take.
SpecGenLive ==
    /\ GenInit
    /\ [][GenNext]_vars
    /\ WF_vars(GenerateRoom)
    /\ WF_vars(GenerateStairs)
    /\ WF_vars(GenerateSpawn)
    /\ WF_vars(GenerateReturn)

(***************************************************************************)
(* Properties of the game loop                                             *)
(***************************************************************************)

\* The player's active effects, the empty list when the field is missing.
ActiveEffects(state) ==
    IF state.player.statusEffects = Null THEN <<>> ELSE state.player.statusEffects[1]

\* C3: a step that advances the turn counter decrements the turns-remaining
\* of every active status effect of the player by 1 and drops those that
\* reach 0, and a step that does not advance it decrements none.
C3_EffectsDecrementedOncePerTurn ==
    [][/\ gameState'.turnCount = gameState.turnCount + 1
          => ActiveEffects(gameState') = updateStatusEffects(ActiveEffects(gameState))
       /\ gameState'.turnCount = gameState.turnCount
          => \A i \in 1..Len(ActiveEffects(gameState)) :
               \E j \in 1..Len(ActiveEffects(gameState')) :
                  /\ ActiveEffects(gameState')[j].type = ActiveEffects(gameState)[i].type
                  /\ ActiveEffects(gameState')[j].turnsRemaining
                        >= ActiveEffects(gameState)[i].turnsRemaining]_vars

\* C4: in every update tick and every interact call the enemy pass runs
\* exactly when the turn counter is incremented, and then the hunger decays
\* by HUNGER_RATE (down to 0).
C4_TurnIsAtomic ==
    [][tick'.op \in {"update", "interact"} =>
         /\ tick'.enemyPass <=> gameState'.turnCount = gameState.turnCount + 1
         /\ tick'.enemyPass =>
               gameState'.player.hunger = Max(0, gameState.player.hunger - HUNGER_RATE)
         /\ ~tick'.enemyPass =>
               gameState'.player.hunger = gameState.player.hunger]_vars

\* C23: for the player and for every enemy, in every reachable state hp is
\* within [0, max-hp], the player's game is over when the player's hp is 0,
\* and an enemy is not alive exactly when its hp is 0.
C23_HpWithinBoundsAndAliveIffPositive ==
    /\ gameState.player.hp >= 0
    /\ gameState.player.hp <= gameState.player.maxHp
    /\ gameState.player.hp = 0 => gameState.gameOver
    /\ \A i \in 1..Len(gameState.entities.enemies) :
          LET enemy == gameState.entities.enemies[i]
          IN  /\ enemy.hp >= 0
              /\ enemy.hp <= enemy.maxHp
              /\ ~enemy.isAlive <=> enemy.hp = 0

\* C31: game over is final.  Once gameOver is true it stays true, and no
\* later update tick or interact call changes the turn counter, the
\* player's hp, hunger or position, any enemy's position or hp, or the
\* dungeon.
C31_GameOverIsFinal ==
    [][gameState.gameOver =>
         /\ gameState'.gameOver
         /\ tick'.op \in {"update", "interact"} =>
               /\ gameState'.turnCount = gameState.turnCount
               /\ gameState'.player.hp = gameState.player.hp
               /\ gameState'.player.hunger = gameState.player.hunger
               /\ gameState'.player.position = gameState.player.position
               /\ gameState'.player.worldPosition = gameState.player.worldPosition
               /\ gameState'.entities.enemies = gameState.entities.enemies
               /\ gameState'.dungeon = gameState.dungeon]_vars

\* The game is over and an update tick has run since: the tick that ends
\* the game runs the enemy pass, this one did not.
C31_Witness ==
    /\ gameState.gameOver
    /\ tick.op = "update"
    /\ ~tick.enemyPass

C34_EnemyMovesOneStepOntoFreeFloor ==
    [][\A i \in 1..Len(gameState.entities.enemies) :
          (/\ tick'.enemyPass
           /\ Len(gameState'.entities.enemies) = Len(gameState.entities.enemies)
           /\ gameState'.entities.enemies[i].position
                 # gameState.entities.enemies[i].position)
          => /\ isWalkable(gameState'.dungeon.grid,
                           gameState'.entities.enemies[i].position.x,
                           gameState'.entities.enemies[i].position.y)
             /\ isAdjacent(gameState.entities.enemies[i].position,
                           gameState'.entities.enemies[i].position)
             /\ gameState'.entities.enemies[i].position
                   # gameState'.player.position]_vars

\* An enemy pass has run and an enemy is no longer where it was spawned.
C34_Witness ==
    /\ tick.enemyPass
    /\ \E i \in 1..Len(gameState.entities.enemies) :
          /\ gameState.entities.enemies[i].position
                # gameState.dungeon.enemySpawns[i].position
          /\ gameState.entities.enemies[i].position # gameState.player.position

C25_ExploredOnlyGrows ==
    [][gameState'.dungeon.level = gameState.dungeon.level =>
         /\ gameState.exploredTiles \subseteq gameState'.exploredTiles
         /\ gameState'.player.position # gameState.player.position =>
               gameState'.exploredTiles =
                  gameState.exploredTiles \cup gameState'.visibleTiles
         /\ gameState'.player.position = gameState.player.position =>
               gameState'.exploredTiles = gameState.exploredTiles]_vars

\* The player has walked on: a tile explored earlier is no longer visible.
C25_Witness ==
    /\ tick.op = "update"
    /\ gameState.visibleTiles \subseteq gameState.exploredTiles
    /\ gameState.visibleTiles # gameState.exploredTiles

\* C28: after every player move, combat mode is on exactly when at least
\* one live enemy standing on a currently visible tile is within
\* COMBAT_DETECTION_RADIUS of the player's world position.
C28_CombatModeIffEnemyNear ==
    [][(/\ tick'.op = "update"
        /\ gameState'.player.worldPosition # gameState.player.worldPosition)
       => (gameState'.inCombatMode <=>
             \E i \in 1..Len(gameState'.entities.enemies) :
                LET enemy == gameState'.entities.enemies[i]
                    world == gridToWorld(enemy.position.x, enemy.position.y)
                    dx == world.x - gameState'.player.worldPosition.x
                    dz == world.z - gameState'.player.worldPosition.z
                IN  /\ enemy.isAlive /\ enemy.hp > 0
                    /\ enemy.position \in gameState'.visibleTiles
                    /\ dx * dx + dz * dz
                          <= COMBAT_DETECTION_RADIUS * COMBAT_DETECTION_RADIUS)]_vars

\* C27: when a player attack brings an enemy's hp to 0 or below, the
\* player's experience increases by that enemy's XP value, or the player's
\* level increases when the next-level threshold is reached.
C27_KillAwardsExperience ==
    [][(\E i \in 1..Len(gameState.entities.enemies) :
           /\ tick'.op = "interact"
           /\ Len(gameState'.entities.enemies) = Len(gameState.entities.enemies)
           /\ gameState.entities.enemies[i].isAlive
           /\ ~gameState'.entities.enemies[i].isAlive)
       => \E i \in 1..Len(gameState.entities.enemies) :
           /\ gameState.entities.enemies[i].isAlive
           /\ ~gameState'.entities.enemies[i].isAlive
           /\ IF gameState.player.xp + gameState.entities.enemies[i].xpValue
                    < gameState.player.xpToNext
              THEN gameState'.player.xp =
                      gameState.player.xp + gameState.entities.enemies[i].xpValue
              ELSE gameState'.player.level > gameState.player.level]_vars

(***************************************************************************)
(* Properties of the dungeon generator                                     *)
(***************************************************************************)

\* Two rooms share a tile.
ShareTile(a, b) ==
    /\ a.x < b.x + b.width
    /\ b.x < a.x + a.width
    /\ a.y < b.y + b.height
    /\ b.y < a.y + a.height

\* C1: two calls of generateDungeon with the same seed, level, width and
\* height return identical grids, identical room lists, the same stairs
\* position and identical spawn tables, whatever calls came in between.
C1_GenerateDungeonDeterministic ==
    \A a, b \in 1..Len(gen.returned) :
        (/\ gen.returned[a].seed = gen.returned[b].seed
         /\ gen.returned[a].level = gen.returned[b].level
         /\ gen.returned[a].dungeon.width = gen.returned[b].dungeon.width
         /\ gen.returned[a].dungeon.height = gen.returned[b].dungeon.height)
        => /\ gen.returned[a].dungeon.grid = gen.returned[b].dungeon.grid
           /\ gen.returned[a].dungeon.rooms = gen.returned[b].dungeon.rooms
           /\ gen.returned[a].dungeon.stairsPosition
                 = gen.returned[b].dungeon.stairsPosition
           /\ gen.returned[a].dungeon.enemySpawns
                 = gen.returned[b].dungeon.enemySpawns

\* Two calls with the same seed and level have returned, each with several
\* rooms and several spawns.
C1_Witness ==
    /\ Len(gen.returned) >= 2
    /\ gen.returned[1].seed = gen.returned[2].seed
    /\ gen.returned[1].level = gen.returned[2].level
    /\ Len(gen.returned[1].dungeon.rooms) >= 3
    /\ Len(gen.returned[2].dungeon.enemySpawns) >= 2

\* C6: no two distinct rooms of the room list share a tile, in every
\* dungeon returned and in the list while it is built.
C6_RoomsDoNotIntersect ==
    /\ \A i, j \in 1..Len(gen.rooms) :
          i # j => ~ShareTile(gen.rooms[i], gen.rooms[j])
    /\ \A c \in 1..Len(gen.returned) :
          \A i, j \in 1..Len(gen.returned[c].dungeon.rooms) :
             i # j => ~ShareTile(gen.returned[c].dungeon.rooms[i],
                                 gen.returned[c].dungeon.rooms[j])

\* A dungeon of several rooms has been returned by a call that rejected
\* some of its candidate rooms.
C6_Witness ==
    /\ gen.pc = "idle"
    /\ Len(gen.returned) >= 1
    /\ Len(gen.rooms) >= 3
    /\ Len(gen.rooms) < gen.numRooms
    /\ gen.returned[Len(gen.returned)].dungeon.rooms = gen.rooms

\* C17: in every generated dungeon the room list holds between MIN_ROOMS
\* and MAX_ROOMS rooms, for every seed and level.
C17_RoomCountWithinBounds ==
    \A c \in 1..Len(gen.returned) :
        /\ Len(gen.returned[c].dungeon.rooms) >= MIN_ROOMS
        /\ Len(gen.returned[c].dungeon.rooms) <= MAX_ROOMS

\* C18: in every generated dungeon the descent position is the center of
\* the last accepted room, lies inside that room's rectangle, and the grid
\* holds stairs_down at exactly that tile and at no other tile.
C18_StairsAtCenterOfLastRoom ==
    \A c \in 1..Len(gen.returned) :
        LET dungeon == gen.returned[c].dungeon
            last    == dungeon.rooms[Len(dungeon.rooms)]
            stairs  == dungeon.stairsPosition
        IN  /\ Len(dungeon.rooms) >= 1
            /\ 2 * stairs.x <= 2 * last.x + last.width
            /\ 2 * last.x + last.width < 2 * stairs.x + 2
            /\ 2 * stairs.y <= 2 * last.y + last.height
            /\ 2 * last.y + last.height < 2 * stairs.y + 2
            /\ last.x <= stairs.x /\ stairs.x < last.x + last.width
            /\ last.y <= stairs.y /\ stairs.y < last.y + last.height
            /\ \A x \in 0..(dungeon.width - 1), y \in 0..(dungeon.height - 1) :
                  (dungeon.grid[y + 1][x + 1] = "stairs_down")
                      <=> (x = stairs.x /\ y = stairs.y)

\* A dungeon of several rooms has been returned, its stairs away from the
\* player's start in the first room.
C18_Witness ==
    /\ Len(gen.returned) >= 1
    /\ Len(gen.returned[1].dungeon.rooms) >= 3
    /\ gen.returned[1].dungeon.stairsPosition
          # getPlayerStartPosition(gen.returned[1].dungeon)
    /\ gen.returned[1].dungeon.grid
          [gen.returned[1].dungeon.stairsPosition.y + 1]
          [gen.returned[1].dungeon.stairsPosition.x + 1] = "stairs_down"

\* C19: every enemy spawn of a generated dungeon lies inside a room that is
\* neither the first room nor the last room, on a tile whose grid value is
\* floor, and never on the descent tile.
C19_SpawnsInMiddleRoomsOnFloor ==
    \A c \in 1..Len(gen.returned) :
        LET dungeon == gen.returned[c].dungeon
            rooms   == dungeon.rooms
            Inside(p, room) ==
                /\ room.x <= p.x /\ p.x < room.x + room.width
                /\ room.y <= p.y /\ p.y < room.y + room.height
        IN  \A s \in 1..Len(dungeon.enemySpawns) :
              LET p == dungeon.enemySpawns[s].position
              IN  /\ \E k \in 2..(Len(rooms) - 1) : Inside(p, rooms[k])
                  /\ ~Inside(p, rooms[1])
                  /\ ~Inside(p, rooms[Len(rooms)])
                  /\ dungeon.grid[p.y + 1][p.x + 1] = "floor"
                  /\ p # dungeon.stairsPosition

\* A dungeon with several spawns has been returned.
C19_Witness ==
    /\ Len(gen.returned) >= 1
    /\ Len(gen.returned[1].dungeon.enemySpawns) >= 2
    /\ Len(gen.returned[1].dungeon.rooms) >= 3

\* C20: within one generated dungeon no two spawns have the same position.
C20_SpawnPositionsDistinct ==
    \A c \in 1..Len(gen.returned) :
        \A s, t \in 1..Len(gen.returned[c].dungeon.enemySpawns) :
            s # t => gen.returned[c].dungeon.enemySpawns[s].position
                        # gen.returned[c].dungeon.enemySpawns[t].position

\* C21: the number of enemy spawns in the dungeon generated for level L
\* equals floor(L * 1.5), for every seed and every level L >= 1.
C21_SpawnCountIsScaledLevel ==
    \A c \in 1..Len(gen.returned) :
        Len(gen.returned[c].dungeon.enemySpawns)
            = (gen.returned[c].level * 3) \div 2

\* C22: in every generated dungeon, and while it is carved, every tile of
\* the outermost rows and columns of the grid is wall, and the grid has
\* height rows of width cells that each hold a tile value.
C22_BorderIsWallAndGridIsFull ==
    LET Full(grid, width, height) ==
            /\ Len(grid) = height
            /\ \A y \in 1..height :
                  /\ Len(grid[y]) = width
                  /\ \A x \in 1..width :
                        /\ grid[y][x] \in {"wall", "floor", "stairs_down"}
                        /\ (x \in {1, width} \/ y \in {1, height})
                              => grid[y][x] = "wall"
    IN  /\ gen.pc \in {"rooms", "spawns"} => Full(gen.grid, gen.width, gen.height)
        /\ \A c \in 1..Len(gen.returned) :
              Full(gen.returned[c].dungeon.grid,
                   gen.returned[c].dungeon.width,
                   gen.returned[c].dungeon.height)

\* A dungeon has been returned with a floor tile right next to the border.
C22_Witness ==
    /\ Len(gen.returned) >= 1
    /\ Len(gen.returned[1].dungeon.rooms) >= 3
    /\ \E y \in 2..(GenHeight - 1) :
          \/ gen.returned[1].dungeon.grid[y][2] = "floor"
          \/ gen.returned[1].dungeon.grid[y][GenWidth - 1] = "floor"


\* C29: invalid configuration raises an error at the call instead of
\* returning a value: createEnemy with a type that is not a key of
\* ENEMY_TYPES, and generateDungeon with a width or a height that is zero
\* or negative.
C29_InvalidConfigurationRaises ==
    /\ gen.pc = "createEnemy" /\ gen.call.type \notin DOMAIN ENEMY_TYPES
          => "error" \in DOMAIN gen.call.out
    /\ gen.pc = "generateDungeon" /\ (gen.call.width <= 0 \/ gen.call.height <= 0)
          => gen.call.out.error # "none"


\* The tiles reached from `seen` by 4-directional steps over walkable
\* tiles, `frontier` being the tiles of `seen` reached last.
RECURSIVE Flood(_, _, _)
Flood(grid, seen, frontier) ==
    CHOOSE all \in
        {IF f = {} THEN s
         ELSE Flood(grid,
                    s \cup {q \in UNION {{Pos(p.x + 1, p.y), Pos(p.x - 1, p.y),
                                           Pos(p.x, p.y + 1), Pos(p.x, p.y - 1)} :
                                             p \in f} :
                               isWalkable(grid, q.x, q.y)},
                    {q \in UNION {{Pos(p.x + 1, p.y), Pos(p.x - 1, p.y),
                                   Pos(p.x, p.y + 1), Pos(p.x, p.y - 1)} :
                                     p \in f} :
                       isWalkable(grid, q.x, q.y) /\ q \notin s}) :
           s \in {seen}, f \in {frontier}} : TRUE

\* C36: in every generated dungeon, looked at when generateDungeon
\* returns it, all rooms are connected: from the
\* player start, the centre of the first room, there is a path of
\* 4-directionally adjacent walkable tiles to the centre of every room, and
\* so to the stairs down.
C36_RoomsConnected ==
    (gen.pc = "idle" /\ Len(gen.returned) > 0) =>
        \A dungeon \in {gen.returned[Len(gen.returned)].dungeon} :
        \A start \in {getPlayerStartPosition(dungeon)} :
        \A reached \in {Flood(dungeon.grid, {start}, {start})} :
            /\ isWalkable(dungeon.grid, start.x, start.y)
            /\ \A i \in 1..Len(dungeon.rooms) :
                  RoomCenter(dungeon.rooms[i]) \in reached
            /\ dungeon.stairsPosition \in reached

\* A dungeon of three rooms or more has been returned, with a corridor
\* tile outside every room.
C36_Witness ==
    \E k \in 1..Len(gen.returned) :
        LET dungeon == gen.returned[k].dungeon
        IN  /\ Len(dungeon.rooms) >= 3
            /\ \E x \in 0..(dungeon.width - 1), y \in 0..(dungeon.height - 1) :
                  /\ isWalkable(dungeon.grid, x, y)
                  /\ \A i \in 1..Len(dungeon.rooms) :
                        ~(/\ x \in dungeon.rooms[i].x..(dungeon.rooms[i].x + dungeon.rooms[i].width - 1)
                          /\ y \in dungeon.rooms[i].y..(dungeon.rooms[i].y + dungeon.rooms[i].height - 1))


\* C39: generateDungeon always terminates.  Room placement makes numRooms
\* attempts, at most MAX_ROOMS, and a candidate that overlaps is skipped;
\* every corridor loop between the centres of two rooms joined reaches its
\* end within the size of the grid, carving the tiles between them; spawn
\* placement makes enemyCount attempts; and every call that has started
\* returns.
C39_GenerateDungeonTerminates ==
    /\ [](
          /\ (gen.pc = "rooms") =>
                (/\ gen.numRooms \in MIN_ROOMS..MAX_ROOMS
                 /\ gen.i <= gen.numRooms
                 /\ Len(gen.rooms) <= gen.i)
          /\ (gen.pc = "spawns") =>
                (/\ gen.i <= gen.enemyCount
                 /\ Len(gen.spawns) <= gen.i)
          /\ (gen.pc \in {"rooms", "spawns"}) =>
                (\A i \in 1..(Len(gen.rooms) - 1) :
                   LET a == RoomCenter(gen.rooms[i])
                       b == RoomCenter(gen.rooms[i + 1])
                       alongX == corridorLoop(a.x, b.x, gen.width)
                       alongY == corridorLoop(a.y, b.y, gen.height)
                   IN  /\ alongX.done
                       /\ alongY.done
                       /\ alongX.carved \cup {b.x} = Between(a.x, b.x)
                       /\ alongY.carved \cup {b.y} = Between(a.y, b.y)))
    /\ (gen.pc \in {"rooms", "spawns"}) ~> (gen.pc = "idle")

\* The last call skipped a candidate room that overlapped, made a spawn
\* and returned, and no call is left to make.
C39_Witness ==
    /\ gen.pc = "idle"
    /\ Len(gen.returned) = MaxCalls
    /\ gen.i = gen.enemyCount
    /\ Len(gen.rooms) < gen.numRooms
    /\ Len(gen.spawns) > 0

====
